---- MODULE Spec2Model ----
(***************************************************************************)
(* A model of the motion detector of rmr (src/src/modect.rs): the          *)
(* frame-diff kernel MotionDetector::frame_diff and the state machine      *)
(* RunningMotionDetector (new, frame_recv, drain_pending_states).          *)
(*                                                                         *)
(* Numbers.  The code computes in f64.  Every value the model handles is   *)
(* a ratio of small integers, so an f64 is modelled as an exact rational   *)
(* [n, d] in lowest terms with d > 0; the IEEE value 0.0 / 0.0 = NaN is    *)
(* [n |-> 0, d |-> 0], and every comparison with it is false, as in IEEE.  *)
(* A standard deviation sqrt(v) is carried as v (its square): sqrt is      *)
(* strictly increasing on v >= 0, so sqrt(v) > s is decided on v           *)
(* (StdDevGt).  Images are named; Pixels gives the pixel data of a name.   *)
(*                                                                         *)
(* Time.  The queue Vec<(DateTime<Utc>, MotionDetectionState)> is kept as  *)
(* two sequences of equal length, pending_states and pending_times.  Every *)
(* push reads Utc::now() anew; the readings a call of frame_recv gets are  *)
(* handed to it in the field utc_now.  Timestamps never steer the          *)
(* detector, so Spec and SpecScenario let the clock stand still, and       *)
(* SpecClock lets it advance between any two readings.                     *)
(***************************************************************************)
EXTENDS Integers, Sequences, FiniteSets, TLC

VARIABLES
    config,                   \* RunningMotionDetector.config
    mask_image,               \* RunningMotionDetector.mask_image
    last_frame,               \* Option<RgbImage>
    frame_number,             \* u64
    current_detection,        \* Vec<MotionDetectionFrame>
    followup_frames,          \* Vec<MotionDetectionFrame>
    detection_start_frame,    \* Option<u64>
    detection_confirmed,      \* bool
    current_detection_score,  \* f64
    pending_states,           \* Vec<(DateTime<Utc>, MotionDetectionState)>: the states
    pending_times,            \* ... and, position by position, their DateTime<Utc>
    clock,                    \* the wall clock Utc::now() reads
    stats,                    \* the MotionDetectionStats the last frame_recv returned
    inputs,                   \* history: the frames handed to frame_recv, in order
    drained,                  \* history: the transitions drain_pending_states has yielded
    drained_times,            \* history: their timestamps, position by position
    undrained,                \* history: a detector given the same frames and never drained
    camera_frames,            \* the frames the camera's stream holds (environment)
    camera_alert_priority,    \* MotionDetectionConfig.alert_priority
    decoder_pc,               \* the camera task: where it is in the respawn loop and in run()
    image_buf,                \* ffmpeg.rs image_buf: the frame read and not yet sent
    decoded,                  \* history: the frames read from the decoder, in order
    channel,                  \* the mpsc channel of main.rs 138
    worker_pc,                \* the consumer task: "recv" or "dispatch"
    jobs,                     \* the detached jobs spawned so far, in spawn order
    event_dir,                \* the files in CONFIG.event_dir
    alert_call,               \* one call of alert_event: its arguments, CONFIG.pushover, the build
    alert,                    \* the PushoverAlert that call builds
    alert_pc,                 \* where the call is: "call", "spawned", "returned", "panicked", "pushed"
    requests,                 \* the requests made to the pushover endpoint
    encoded                   \* history: the frame indices handed to the gif and webp encoders

vars == <<config, mask_image, last_frame, frame_number, current_detection,
          followup_frames, detection_start_frame, detection_confirmed,
          current_detection_score, pending_states, pending_times, clock, stats,
          inputs, drained, drained_times, undrained, camera_frames,
          camera_alert_priority, decoder_pc, image_buf, decoded, channel, worker_pc,
          jobs, event_dir, alert_call, alert, alert_pc, requests, encoded>>

\* the state of the camera worker around the detector
worker_vars == <<camera_frames, camera_alert_priority, decoder_pc, image_buf, decoded,
                 channel, worker_pc, jobs, event_dir>>

\* the state of one alert_event call
alert_vars == <<alert_call, alert, alert_pc, requests, encoded>>

-----------------------------------------------------------------------------
(* Bounds of the model. *)

\* frames fed to one detector under Spec
MaxFrames == 6
\* frames fed to one detector under SpecScenario (the scenarios of section 8 are 5 and 8 frames long)
MaxScenarioFrames == 8
\* frames fed to one detector under SpecThreshold
MaxThresholdFrames == 4
\* frames read from the decoder under SpecWorker
MaxDecoded == 11
\* frames of the short events alerts are built for under SpecAlert
MaxAlertFrames == 3
\* frames fed to one detector under SpecClock
MaxClockFrames == 5
\* the latest reading of the wall clock under SpecClock
MaxClock == 2

-----------------------------------------------------------------------------
(* Option<T> *)

None == <<>>
Some(x) == <<x>>
Unwrap(o) == o[1]

-----------------------------------------------------------------------------
(* f64 as exact rationals *)

RECURSIVE Gcd(_, _)
Gcd(a, b) == IF b = 0 THEN a ELSE Gcd(b, a % b)

Abs(x) == IF x < 0 THEN -x ELSE x

NaN == [n |-> 0, d |-> 0]

IsNaN(x) == x.d = 0

\* n / d as an f64: 0/0 is NaN (no other division by zero arises in the code modelled)
Ratio(n, d) ==
    IF d = 0 THEN NaN
    ELSE LET g == Gcd(Abs(n), Abs(d))
             s == IF d < 0 THEN -1 ELSE 1
         IN [n |-> (s * n) \div g, d |-> (s * d) \div g]

F(i) == [n |-> i, d |-> 1]

Zero == F(0)

FAdd(x, y) == IF IsNaN(x) \/ IsNaN(y) THEN NaN ELSE Ratio(x.n * y.d + y.n * x.d, x.d * y.d)

FSub(x, y) == IF IsNaN(x) \/ IsNaN(y) THEN NaN ELSE Ratio(x.n * y.d - y.n * x.d, x.d * y.d)

FMul(x, y) == IF IsNaN(x) \/ IsNaN(y) THEN NaN ELSE Ratio(x.n * y.n, x.d * y.d)

\* x / c for an integer count c
FDivInt(x, c) == IF IsNaN(x) THEN NaN ELSE IF c = 0 THEN NaN ELSE Ratio(x.n, x.d * c)

FLt(x, y) == ~IsNaN(x) /\ ~IsNaN(y) /\ x.n * y.d < y.n * x.d

FGt(x, y) == FLt(y, x)

FGe(x, y) == ~IsNaN(x) /\ ~IsNaN(y) /\ x.n * y.d >= y.n * x.d

\* sqrt(v) > s, for v the square carried in place of a standard deviation
StdDevGt(v, s) ==
    /\ ~IsNaN(v)
    /\ ~IsNaN(s)
    /\ \/ s.n < 0
       \/ FGt(v, FMul(s, s))

-----------------------------------------------------------------------------
(* Images.  An RgbImage is a sequence of pixels <<r, g, b>> in row-major    *)
(* order; every frame of one detector has the same shape (4 x 4 here, the   *)
(* shape of the scenarios of section 8).                                    *)

Width == 4
Height == 4

Uniform(p) == [i \in 1..(Width * Height) |-> p]

\* img with its last pixel replaced by p
LastPixel(img, p) == [img EXCEPT ![Width * Height] = p]

\* the images the decoder may deliver: A and B are the uniform frames of section 8,
\* X and Y differ from A in one pixel
FrameNames == {"A", "B", "X", "Y"}

\* the images fed under Spec
GeneralFrames == {"A", "B", "X"}

Pixels(name) ==
    CASE name = "A" -> Uniform(<<0, 0, 0>>)
      [] name = "B" -> Uniform(<<50, 0, 0>>)
      [] name = "X" -> LastPixel(Uniform(<<0, 0, 0>>), <<8, 0, 0>>)
      [] name = "Y" -> LastPixel(Uniform(<<0, 0, 0>>), <<5, 0, 0>>)

\* the mask files a configuration may name (GrayImage: one u8 per pixel)
MaskFiles == {"mask_all", "mask_last"}

MaskPixels(file) ==
    CASE file = "mask_all" -> [i \in 1..(Width * Height) |-> 255]
      [] file = "mask_last" -> [i \in 1..(Width * Height) |-> IF i = Width * Height THEN 0 ELSE 255]

-----------------------------------------------------------------------------
(* MotionDetector::frame_diff, modect.rs 276-312 *)

\* lines 296-301: the squared distance of two pixels, summed over the channels
PixelDiff(pixel1, pixel2) ==
    (pixel1[1] - pixel2[1]) * (pixel1[1] - pixel2[1])
    + (pixel1[2] - pixel2[2]) * (pixel1[2] - pixel2[2])
    + (pixel1[3] - pixel2[3]) * (pixel1[3] - pixel2[3])

\* lines 288-292: is pixel i counted; the mask iterator yields one value per pixel
\* and a pixel past its end, or any pixel without a mask, is counted
MaskIncludes(mask, i) ==
    IF mask = None THEN TRUE
    ELSE IF i <= Len(Unwrap(mask)) THEN Unwrap(mask)[i] = 0
    ELSE TRUE

\* lines 302-306: one counted pixel; acc = [sum, running_stddev, pixel_ct]
DiffAccumulate(acc, diff) ==
    [sum |-> acc.sum + diff,
     running_stddev |->
        IF acc.pixel_ct > 0
        THEN LET dev == FSub(F(diff), Ratio(acc.sum, acc.pixel_ct))
             IN FAdd(acc.running_stddev, FMul(dev, dev))
        ELSE acc.running_stddev,
     pixel_ct |-> acc.pixel_ct + 1]

\* lines 287-307: the loop over the zipped pixels, from pixel i on
RECURSIVE DiffLoop(_, _, _, _, _)
DiffLoop(frame1, frame2, mask, i, acc) ==
    IF i > Len(frame1) \/ i > Len(frame2) THEN acc
    ELSE IF ~MaskIncludes(mask, i) THEN DiffLoop(frame1, frame2, mask, i + 1, acc)
    ELSE DiffLoop(frame1, frame2, mask, i + 1,
                  DiffAccumulate(acc, PixelDiff(frame1[i], frame2[i])))

\* lines 276-312; std_dev_estimate is carried as its square
frame_diff(frame1, frame2, mask) ==
    LET acc == DiffLoop(frame1, frame2, mask, 1,
                        [sum |-> 0, running_stddev |-> Zero, pixel_ct |-> 0])
    IN [average |-> Ratio(acc.sum, acc.pixel_ct),
        std_dev_estimate |-> FDivInt(acc.running_stddev, acc.pixel_ct)]

\* the pixel data of an Option<mask image name>
MaskData(mask) == IF mask = None THEN None ELSE Some(MaskPixels(Unwrap(mask)))

\* frame_diff on named images, evaluated once per (mask, image, image)
DiffTable ==
    [m \in {None} \cup {Some(f) : f \in MaskFiles} |->
        [a \in FrameNames |->
            [b \in FrameNames |-> frame_diff(Pixels(a), Pixels(b), MaskData(m))]]]

-----------------------------------------------------------------------------
(* RunningMotionDetector, modect.rs 89-266.  The operators below take the  *)
(* detector as a record `self` of its fields and return the record after   *)
(* the code block they model.                                              *)

\* the detector's fields as a record
Self ==
    [config |-> config,
     mask_image |-> mask_image,
     last_frame |-> last_frame,
     frame_number |-> frame_number,
     current_detection |-> current_detection,
     followup_frames |-> followup_frames,
     detection_start_frame |-> detection_start_frame,
     detection_confirmed |-> detection_confirmed,
     current_detection_score |-> current_detection_score,
     pending_states |-> pending_states,
     pending_times |-> pending_times]

\* RunningMotionDetector::new, lines 90-107
new(cfg) ==
    [config |-> cfg,
     mask_image |-> cfg.mask_file,
     last_frame |-> None,
     frame_number |-> 0,
     current_detection |-> <<>>,
     followup_frames |-> <<>>,
     detection_start_frame |-> None,
     detection_confirmed |-> FALSE,
     current_detection_score |-> Zero,
     pending_states |-> <<>>,
     pending_times |-> <<>>]

\* the detector about to run a call during which Utc::now() returns the
\* readings nows, in order
WithClock(self, nows) ==
    [f \in DOMAIN self \cup {"utc_now"} |-> IF f = "utc_now" THEN nows ELSE self[f]]

\* the detector's own fields, without the clock readings
WithoutClock(self) == [f \in DOMAIN self \ {"utc_now"} |-> self[f]]

\* self.pending_states.push((Utc::now(), state)): a fresh reading per push
Push(self, state) ==
    [self EXCEPT !.pending_states = Append(@, state),
                 !.pending_times = Append(@, Head(self.utc_now)),
                 !.utc_now = Tail(@)]

Idle(n) == [tag |-> "Idle", frame_number |-> n]

RunState(tag, self) ==
    [tag |-> tag,
     start_frame_number |-> Unwrap(self.detection_start_frame),
     current_frame_number |-> self.frame_number,
     current_score |-> self.current_detection_score]

MotionDetectionEvent(start, end, frames, score) ==
    [start_stream_frame_number |-> start,
     end_stream_frame_number |-> end,
     frames |-> frames,
     total_score |-> score]

MotionDetectionFrame(image, change, stddev) ==
    [image |-> image, change |-> change, stddev |-> stddev]

\* Bootstrap reporting the incremented counter (line 123 without "- 1")
BootstrapStatsOffByOne(self, new_frame) ==
    LET s1 == Push(self, Idle(self.frame_number))
        s2 == [s1 EXCEPT !.last_frame = Some(new_frame),
                         !.frame_number = @ + 1]
    IN [self |-> s2,
        ret |-> [change |-> Zero, stddev |-> Zero, frame_number |-> s2.frame_number]]

\* lines 116-125: the first frame of a detector
Bootstrap(self, new_frame) ==
    LET s1 == Push(self, Idle(self.frame_number))
        s2 == [s1 EXCEPT !.last_frame = Some(new_frame),
                         !.frame_number = @ + 1]
    IN [self |-> s2,
        ret |-> [change |-> Zero, stddev |-> Zero, frame_number |-> s2.frame_number - 1]]

\* IsMotion with >= in place of > on both minimums
IsMotionGe(cfg, diff) ==
    /\ FGe(diff.average, cfg.change_minimum)
    /\ FLt(diff.average, cfg.change_maximum)
    /\ \/ StdDevGt(diff.std_dev_estimate, cfg.stddev_minimum)
       \/ diff.std_dev_estimate = FMul(cfg.stddev_minimum, cfg.stddev_minimum)

\* lines 129-131: is the frame motion-positive
IsMotion(cfg, diff) ==
    /\ FGt(diff.average, cfg.change_minimum)
    /\ FLt(diff.average, cfg.change_maximum)
    /\ StdDevGt(diff.std_dev_estimate, cfg.stddev_minimum)

\* BeginOrResume recording the current frame as the start (line 144 without "- 1")
BeginOrResumeStartsLate(self) ==
    LET s1 == IF self.followup_frames # <<>>
              THEN [self EXCEPT !.current_detection = @ \o self.followup_frames,
                                !.followup_frames = <<>>]
              ELSE IF self.current_detection = <<>>
              THEN [self EXCEPT !.current_detection =
                        <<MotionDetectionFrame(Unwrap(self.last_frame), Zero, Zero)>>]
              ELSE self
    IN IF s1.detection_start_frame = None
       THEN [s1 EXCEPT !.detection_start_frame = Some(s1.frame_number)]
       ELSE s1

\* BeginOrResume seeding no pre-roll frame (lines 136-142 left out)
BeginOrResumeNoPreRoll(self) ==
    LET s1 == IF self.followup_frames # <<>>
              THEN [self EXCEPT !.current_detection = @ \o self.followup_frames,
                                !.followup_frames = <<>>]
              ELSE self
    IN IF s1.detection_start_frame = None
       THEN [s1 EXCEPT !.detection_start_frame = Some(s1.frame_number - 1)]
       ELSE s1

\* lines 133-145: splice the post-roll back, or seed an empty run with the
\* previous frame; record the start
BeginOrResume(self) ==
    LET s1 == IF self.followup_frames # <<>>
              THEN [self EXCEPT !.current_detection = @ \o self.followup_frames,
                                !.followup_frames = <<>>]
              ELSE IF self.current_detection = <<>>
              THEN [self EXCEPT !.current_detection =
                        <<MotionDetectionFrame(Unwrap(self.last_frame), Zero, Zero)>>]
              ELSE self
    IN IF s1.detection_start_frame = None
       THEN [s1 EXCEPT !.detection_start_frame = Some(s1.frame_number - 1)]
       ELSE s1

\* ShouldConfirm counting maximum_frame_wait from the frame the run length
\* passed minimum_frame_count, without followup_frame_count
ShouldConfirmAfterWait(self) ==
    /\ FGe(self.current_detection_score, self.config.minimum_total_change)
    /\ self.frame_number - Unwrap(self.detection_start_frame)
          > self.config.maximum_frame_wait + self.config.minimum_frame_count
    /\ ~self.detection_confirmed

\* ShouldConfirm with >= in place of > on the elapsed frames
ShouldConfirmAtBudget(self) ==
    /\ FGe(self.current_detection_score, self.config.minimum_total_change)
    /\ self.frame_number - Unwrap(self.detection_start_frame)
          >= self.config.maximum_frame_wait + self.config.followup_frame_count
              + self.config.minimum_frame_count
    /\ ~self.detection_confirmed

\* ShouldConfirm without the test of the accumulated score
ShouldConfirmIgnoresScore(self) ==
    /\ self.frame_number - Unwrap(self.detection_start_frame)
          > self.config.maximum_frame_wait + self.config.followup_frame_count
              + self.config.minimum_frame_count
    /\ ~self.detection_confirmed

\* lines 146-151: the condition of the in-progress confirmation
ShouldConfirm(self) ==
    /\ FGe(self.current_detection_score, self.config.minimum_total_change)
    /\ self.frame_number - Unwrap(self.detection_start_frame)
          > self.config.maximum_frame_wait + self.config.followup_frame_count
              + self.config.minimum_frame_count
    /\ ~self.detection_confirmed

\* lines 146-165
Confirm(self) ==
    IF ShouldConfirm(self)
    THEN Push([self EXCEPT !.detection_confirmed = TRUE],
              [tag |-> "ConfirmedInProgress",
               event |-> MotionDetectionEvent(Unwrap(self.detection_start_frame),
                                              self.frame_number,
                                              self.current_detection,
                                              self.current_detection_score)])
    ELSE self

\* AppendFrame adding the standard deviation to the score (line 171 with the
\* wrong field of diff)
AppendFrameScoresStdDev(self, new_frame, diff) ==
    [self EXCEPT !.current_detection =
                     Append(@, MotionDetectionFrame(new_frame, diff.average, diff.std_dev_estimate)),
                 !.current_detection_score = FAdd(@, diff.std_dev_estimate)]

\* lines 166-171
AppendFrame(self, new_frame, diff) ==
    [self EXCEPT !.current_detection =
                     Append(@, MotionDetectionFrame(new_frame, diff.average, diff.std_dev_estimate)),
                 !.current_detection_score = FAdd(@, diff.average)]

\* BelowAcceptThresholds judging the newest frame's change instead of the
\* accumulated score
BelowAcceptThresholdsByFrame(self) ==
    \/ Len(self.current_detection) <= self.config.minimum_frame_count
    \/ FLt(self.current_detection[Len(self.current_detection)].change,
           self.config.minimum_total_change)

\* BelowAcceptThresholds with < in place of <= on the run length
BelowAcceptThresholdsStrict(self) ==
    \/ Len(self.current_detection) < self.config.minimum_frame_count
    \/ FLt(self.current_detection_score, self.config.minimum_total_change)

\* lines 173-174
BelowAcceptThresholds(self) ==
    \/ Len(self.current_detection) <= self.config.minimum_frame_count
    \/ FLt(self.current_detection_score, self.config.minimum_total_change)

\* lines 173-193
PushRunState(self) ==
    IF BelowAcceptThresholds(self)
    THEN Push(self, RunState("WaitAndSee", self))
    ELSE Push(self, RunState("Active", self))

\* lines 133-193: the motion-positive branch
MotionPositive(self, new_frame, diff) ==
    PushRunState(AppendFrame(Confirm(BeginOrResume(self)), new_frame, diff))

\* lines 196-208: buffer a post-roll frame
Followup(self, new_frame) ==
    LET s1 == Push(self, RunState("Followup", self))
    IN [s1 EXCEPT !.followup_frames = Append(@, MotionDetectionFrame(new_frame, Zero, Zero))]

\* ShouldReject without the score test of line 210
ShouldRejectIgnoresScore(self) ==
    Len(self.current_detection) <= self.config.minimum_frame_count

\* ShouldReject with < in place of <= on the run length
ShouldRejectStrict(self) ==
    \/ Len(self.current_detection) < self.config.minimum_frame_count
    \/ FLt(self.current_detection_score, self.config.minimum_total_change)

\* lines 209-210
ShouldReject(self) ==
    \/ Len(self.current_detection) <= self.config.minimum_frame_count
    \/ FLt(self.current_detection_score, self.config.minimum_total_change)

\* SplicePostRoll emptying the post-roll buffer without extending the run
SplicePostRollDropped(self) == [self EXCEPT !.followup_frames = <<>>]

\* lines 212-213 and 234-235: self.current_detection.extend(self.followup_frames.drain(..))
SplicePostRoll(self) ==
    [self EXCEPT !.current_detection = @ \o self.followup_frames,
                 !.followup_frames = <<>>]

\* lines 218-221 and 241-244: the event built while taking the start and draining the run
TakeEvent(self) ==
    MotionDetectionEvent(Unwrap(self.detection_start_frame),
                         self.frame_number - 1,
                         self.current_detection,
                         self.current_detection_score)

\* ResetRun without line 225 / 248
ResetRunKeepsScore(self) ==
    [self EXCEPT !.detection_start_frame = None,
                 !.current_detection = <<>>,
                 !.detection_confirmed = FALSE]

\* ResetRun with the run and its start left in place
ResetRunKeepsRun(self) ==
    [self EXCEPT !.current_detection_score = Zero,
                 !.detection_confirmed = FALSE]

\* ResetRun without line 226 / 249
ResetRunKeepsConfirmed(self) ==
    [self EXCEPT !.detection_start_frame = None,
                 !.current_detection = <<>>,
                 !.current_detection_score = Zero]

\* what take() and drain(..) leave behind, then lines 225-226 / 248-249
ResetRun(self) ==
    [self EXCEPT !.detection_start_frame = None,
                 !.current_detection = <<>>,
                 !.current_detection_score = Zero,
                 !.detection_confirmed = FALSE]

\* lines 212-232
Reject(self) ==
    LET s1 == SplicePostRoll(self)
        s2 == Push(s1, [tag |-> "Rejected", event |-> TakeEvent(s1)])
        s3 == ResetRun(s2)
    IN Push(s3, Idle(s3.frame_number))

\* lines 234-255
Complete(self) ==
    LET s1 == SplicePostRoll(self)
        s2 == Push(s1, [tag |-> "Completed",
                        was_confirmed_already |-> s1.detection_confirmed,
                        event |-> TakeEvent(s1)])
        s3 == ResetRun(s2)
    IN Push(s3, Idle(s3.frame_number))

\* MotionNegative with <= in place of < on the post-roll buffer (line 194)
MotionNegativeBuffersOneMore(self, new_frame) ==
    IF Len(self.followup_frames) <= self.config.followup_frame_count
    THEN Followup(self, new_frame)
    ELSE IF ShouldReject(self)
    THEN Reject(self)
    ELSE Complete(self)

\* lines 194-257: the motion-negative branch of an open run
MotionNegative(self, new_frame) ==
    IF Len(self.followup_frames) < self.config.followup_frame_count
    THEN Followup(self, new_frame)
    ELSE IF ShouldReject(self)
    THEN Reject(self)
    ELSE Complete(self)

\* NoRun announcing the idle frame
NoRunPushesIdle(self) == Push(self, Idle(self.frame_number))

\* lines 194-257: a motion-negative frame while no run is open takes no branch
NoRun(self) == self

\* lines 258-264
Finish(self, new_frame, diff) ==
    LET s1 == [self EXCEPT !.frame_number = @ + 1,
                           !.last_frame = Some(new_frame)]
    IN [self |-> s1,
        ret |-> [change |-> diff.average,
                 stddev |-> diff.std_dev_estimate,
                 frame_number |-> s1.frame_number - 1]]

\* lines 115-265
frame_recv(self, new_frame) ==
    IF self.last_frame = None
    THEN Bootstrap(self, new_frame)
    ELSE LET diff == DiffTable[self.mask_image][Unwrap(self.last_frame)][new_frame]
         IN IF IsMotion(self.config, diff)
            THEN Finish(MotionPositive(self, new_frame, diff), new_frame, diff)
            ELSE IF self.current_detection # <<>>
            THEN Finish(MotionNegative(self, new_frame), new_frame, diff)
            ELSE Finish(NoRun(self), new_frame, diff)

\* drain_pending_states handing out a copy of the queue without emptying it
DrainKeepsQueue(self) ==
    [self |-> self,
     ret |-> self.pending_states,
     ret_times |-> self.pending_times]

\* lines 109-113
drain_pending_states(self) ==
    [self |-> [self EXCEPT !.pending_states = <<>>, !.pending_times = <<>>],
     ret |-> self.pending_states,
     ret_times |-> self.pending_times]

-----------------------------------------------------------------------------
(* Configurations *)

RunningMotionDetectorConfig(cmin, cmax, smin, mfc, mtc, fup, wait, mask) ==
    [change_minimum |-> F(cmin),
     change_maximum |-> F(cmax),
     stddev_minimum |-> F(smin),
     minimum_frame_count |-> mfc,
     minimum_total_change |-> F(mtc),
     followup_frame_count |-> fup,
     maximum_frame_wait |-> wait,
     mask_file |-> mask]

\* the configuration of the scenarios of section 8
ScenarioConfig == RunningMotionDetectorConfig(1, 10000, 0, 3, 10, 2, 1, None)

\* the configuration of SpecClock: every run is decided by the first
\* motion-negative frame, and confirmed by its second motion-positive frame
ClockConfig == RunningMotionDetectorConfig(1, 10000, 0, 0, 0, 0, 0, None)

\* the frames of SpecClock
ClockFrames == {"A", "X"}

\* the configurations of SpecThreshold: frame diffs that equal a threshold (the
\* average of A against X is 4, of A against B 2500; the standard deviation of
\* A against X is 16, of A against B 0), that exceed change_maximum, and masks
\* (mask_all leaves no pixel, so the diff is NaN); every motion-positive frame
\* is announced by an Active
ThresholdConfig(cmin, cmax, smin, mask) ==
    RunningMotionDetectorConfig(cmin, cmax, smin, 0, 0, 0, 0, mask)

ThresholdConfigs ==
    {ThresholdConfig(4, 2500, 0, None),
     ThresholdConfig(1, 4, 0, None),
     ThresholdConfig(1, 10000, 16, None),
     ThresholdConfig(1, 100, 0, None),
     ThresholdConfig(-1, 10000, -1, Some("mask_all")),
     ThresholdConfig(1, 10000, -1, Some("mask_last"))}

\* the configurations of Spec: the thresholds of section 8 with small frame
\* counts, a longer post-roll, and minimums at and below zero (the threshold
\* fields are f64 and nothing validates them)
Configs ==
    {RunningMotionDetectorConfig(1, 10000, 0, mfc, mtc, fup, wait, None) :
        mfc \in {0, 2}, mtc \in {0, 10}, fup \in 0..1, wait \in 0..1}
    \cup {RunningMotionDetectorConfig(1, 10000, 0, 1, 10, 2, 0, None)}
    \cup {RunningMotionDetectorConfig(-1, 100, -1, mfc, 0, fup, 0, None) :
            mfc \in {0, 2}, fup \in 0..1}
    \cup {RunningMotionDetectorConfig(0, 10000, -1, 0, 0, 0, 0, None),
          RunningMotionDetectorConfig(-1, 10000, 0, 0, 0, 0, 0, None)}

-----------------------------------------------------------------------------
(* The state machine *)

\* the detector's fields after an operation
SetSelf(s) ==
    /\ config' = s.config
    /\ mask_image' = s.mask_image
    /\ last_frame' = s.last_frame
    /\ frame_number' = s.frame_number
    /\ current_detection' = s.current_detection
    /\ followup_frames' = s.followup_frames
    /\ detection_start_frame' = s.detection_start_frame
    /\ detection_confirmed' = s.detection_confirmed
    /\ current_detection_score' = s.current_detection_score
    /\ pending_states' = s.pending_states
    /\ pending_times' = s.pending_times

NoStats == [change |-> Zero, stddev |-> Zero, frame_number |-> 0]

InitDetector(cfgs) ==
    \E cfg \in cfgs :
        LET s == new(cfg)
        IN /\ config = s.config
           /\ mask_image = s.mask_image
           /\ last_frame = s.last_frame
           /\ frame_number = s.frame_number
           /\ current_detection = s.current_detection
           /\ followup_frames = s.followup_frames
           /\ detection_start_frame = s.detection_start_frame
           /\ detection_confirmed = s.detection_confirmed
           /\ current_detection_score = s.current_detection_score
           /\ pending_states = s.pending_states
           /\ pending_times = s.pending_times
           /\ clock = 0
           /\ stats = NoStats
           /\ inputs = <<>>
           /\ drained = <<>>
           /\ drained_times = <<>>
           /\ undrained = s

\* a detector on its own: no camera task around it
NoWorker ==
    /\ camera_frames = "none"
    /\ camera_alert_priority = None
    /\ decoder_pc = "none"
    /\ image_buf = None
    /\ decoded = <<>>
    /\ channel = <<>>
    /\ worker_pc = "none"
    /\ jobs = <<>>
    /\ event_dir = {}

\* no alert_event call is looked at
NoAlert ==
    /\ alert_call = None
    /\ alert = None
    /\ alert_pc = "none"
    /\ requests = <<>>
    /\ encoded = <<>>

InitWith(cfgs) == InitDetector(cfgs) /\ NoWorker /\ NoAlert

Init == InitWith(Configs)

\* the decoder's next frame is handed to frame_recv while Utc::now() returns
\* the readings nows (a call pushes at most two transitions)
DetectorRecv(new_frame, nows) ==
    \E r \in {frame_recv(WithClock(Self, nows), new_frame)} :
       /\ SetSelf(r.self)
       /\ clock' = nows[Len(nows)]
       /\ stats' = r.ret
       /\ inputs' = Append(inputs, new_frame)
       /\ undrained' = WithoutClock(frame_recv(WithClock(undrained, nows), new_frame).self)
       /\ UNCHANGED <<drained, drained_times>>

FrameRecvAt(new_frame, nows) ==
    DetectorRecv(new_frame, nows) /\ UNCHANGED <<worker_vars, alert_vars>>

\* the same with the clock standing still
FrameRecv(new_frame) == FrameRecvAt(new_frame, <<clock, clock>>)

\* the consumer drains the queue
DrainPendingStates ==
    LET r == drain_pending_states(Self)
    IN /\ SetSelf(r.self)
       /\ drained' = drained \o r.ret
       /\ drained_times' = drained_times \o r.ret_times
       /\ UNCHANGED <<clock, stats, inputs, undrained>>
       /\ UNCHANGED <<worker_vars, alert_vars>>

RecvFrame == \E new_frame \in GeneralFrames : frame_number < MaxFrames /\ FrameRecv(new_frame)

Next == RecvFrame \/ DrainPendingStates

Spec == Init /\ [][Next]_vars

\* the scenarios of section 8: the scenario configuration, frames only
InitScenario == InitWith({ScenarioConfig})

RecvScenarioFrame ==
    \E new_frame \in FrameNames : frame_number < MaxScenarioFrames /\ FrameRecv(new_frame)

NextScenario == RecvScenarioFrame

SpecScenario == InitScenario /\ [][NextScenario]_vars

\* the wall clock may advance before each reading of a call
InitClock == InitWith({ClockConfig})

RecvClockFrame ==
    \E new_frame \in ClockFrames, r1, r2 \in 0..MaxClock :
        /\ frame_number < MaxClockFrames
        /\ clock <= r1 /\ r1 <= r2
        /\ FrameRecvAt(new_frame, <<r1, r2>>)

NextClock == RecvClockFrame

SpecClock == InitClock /\ [][NextClock]_vars

\* frames against thresholds they meet exactly
InitThreshold == InitWith(ThresholdConfigs)

RecvThresholdFrame ==
    \E new_frame \in GeneralFrames : frame_number < MaxThresholdFrames /\ FrameRecv(new_frame)

NextThreshold == RecvThresholdFrame

SpecThreshold == InitThreshold /\ [][NextThreshold]_vars

-----------------------------------------------------------------------------
(* The camera worker of a motion-detect camera, main.rs 131-238: the camera  *)
(* task runs the decoder in a respawn loop (223-237, ffmpeg.rs 98-219) and   *)
(* sends every frame into a bounded channel; the consumer task (145-221)     *)
(* receives a frame, calls frame_recv, drains the queue and spawns detached  *)
(* jobs: alerts (pushover.rs 237-293) and clip writers (modect_mp4.rs).      *)
(* The consumer never drops the receiver, so a send never fails and the      *)
(* decoder's exit shows as a failed read (ffmpeg.rs 199-201).                *)

\* mpsc::channel::<RgbImage>(10)
ChannelCapacity == 10

CameraName == "cam"

\* the detector configuration of the camera: post-roll of one frame, no
\* minimum length, minimum_total_change 10
WorkerConfig == RunningMotionDetectorConfig(1, 10000, 0, 0, 10, 1, 0, None)

\* frame i (from 1) of the camera's stream.  "rejected_confirmed": a run that
\* is rejected (frames 1-3), then one that is confirmed in progress and
\* completed (frames 4-7).  "completed": one run completed without
\* confirmation (frames 1-4).
CameraFrame(stream, i) ==
    IF stream = "rejected_confirmed"
    THEN (IF i = 1 THEN "A" ELSE IF i = 5 THEN "B" ELSE "X")
    ELSE (IF i = 1 THEN "A" ELSE IF i = 2 THEN "X" ELSE "B")

CameraStreams == {"rejected_confirmed", "completed"}

\* motion_detect_dir.join(format!("{}_{}.mp4", camera_name, time)), main.rs 195
EventPath(time, extension) ==
    [camera |-> CameraName, time |-> time, extension |-> extension]

\* the detached task of main.rs 180-187 / 200-211
AlertJob(time, event, alert_state) ==
    [kind |-> "alert", state |-> "spawned", alert_state |-> alert_state,
     time |-> time, event |-> event, fed |-> <<>>]

\* the detached task of main.rs 212-216
ClipJob(time, event) ==
    [kind |-> "clip", state |-> "spawned", alert_state |-> "none",
     time |-> time, event |-> event, fed |-> <<>>]

\* Dispatch spawning the clip writer before the alert
DispatchClipFirst(time, state) ==
    IF state.tag = "ConfirmedInProgress"
    THEN <<AlertJob(time, state.event, "Confirmed")>>
    ELSE IF state.tag = "Completed"
    THEN <<ClipJob(time, state.event),
           AlertJob(time, state.event,
                    IF state.was_confirmed_already THEN "CompletedAfterConfirm"
                                                   ELSE "Completed")>>
    ELSE <<>>

\* Dispatch alerting for a Rejected as well
DispatchAlertsRejected(time, state) ==
    IF state.tag \in {"ConfirmedInProgress", "Rejected"}
    THEN <<AlertJob(time, state.event, "Confirmed")>>
    ELSE IF state.tag = "Completed"
    THEN <<AlertJob(time, state.event,
                    IF state.was_confirmed_already THEN "CompletedAfterConfirm"
                                                   ELSE "Completed"),
           ClipJob(time, state.event)>>
    ELSE <<>>

\* main.rs 154-218: the jobs spawned for one drained transition
Dispatch(time, state) ==
    IF state.tag = "ConfirmedInProgress"
    THEN <<AlertJob(time, state.event, "Confirmed")>>
    ELSE IF state.tag = "Completed"
    THEN <<AlertJob(time, state.event,
                    IF state.was_confirmed_already THEN "CompletedAfterConfirm"
                                                   ELSE "Completed"),
           ClipJob(time, state.event)>>
    ELSE <<>>

\* main.rs 152: the loop over the drained (time, state) pairs, the first k
RECURSIVE DispatchAll(_, _, _)
DispatchAll(times, states, k) ==
    IF k = 0 THEN <<>>
    ELSE DispatchAll(times, states, k - 1) \o Dispatch(times[k], states[k])

\* pushover.rs 245-251: a camera priority of Ignore ends the job with nothing sent
alert_event(job, priority) ==
    IF priority = Some("Ignore")
    THEN [job EXCEPT !.state = "skipped"]
    ELSE [job EXCEPT !.state = "pushing"]

\* pushover.rs 65-115 in the task spawned at 290-292: the request is made
push(job) == [job EXCEPT !.state = "sent"]

\* modect_mp4.rs 15-43: no frame, or the encoder cannot be spawned: an error;
\* else the encoder runs.  Nothing is written to the encoder's input.
modect_mp4(job, spawned) ==
    IF job.event.frames = <<>>
    THEN [job EXCEPT !.state = "failed"]
    ELSE IF ~spawned
    THEN [job EXCEPT !.state = "failed"]
    ELSE [job EXCEPT !.state = "encoding"]

\* modect_mp4.rs 53-58: the encoder's exit status
modect_mp4_wait(job, success) ==
    IF success
    THEN [job EXCEPT !.state = "written"]
    ELSE [job EXCEPT !.state = "failed"]

InitWorker ==
    /\ InitDetector({WorkerConfig})
    /\ camera_frames \in CameraStreams
    /\ camera_alert_priority \in {None, Some("Ignore")}
    /\ decoder_pc = "probe"
    /\ image_buf = None
    /\ decoded = <<>>
    /\ channel = <<>>
    /\ worker_pc = "recv"
    /\ jobs = <<>>
    /\ event_dir = {}
    /\ NoAlert

detector_vars ==
    <<config, mask_image, last_frame, frame_number, current_detection, followup_frames,
      detection_start_frame, detection_confirmed, current_detection_score,
      pending_states, pending_times, clock, stats, inputs, drained, drained_times,
      undrained>>

\* ffmpeg.rs 99-118: ffprobe; any failure returns from run()
Probe ==
    /\ decoder_pc = "probe"
    /\ \E ok \in BOOLEAN : decoder_pc' = IF ok THEN "spawn" ELSE "sleep"
    /\ UNCHANGED <<alert_vars, detector_vars, camera_frames, camera_alert_priority, image_buf,
                   decoded, channel, worker_pc, jobs, event_dir>>

\* ffmpeg.rs 178-184: the decoder is spawned, or run() returns the error
SpawnDecoder ==
    /\ decoder_pc = "spawn"
    /\ \E ok \in BOOLEAN : decoder_pc' = IF ok THEN "read" ELSE "sleep"
    /\ UNCHANGED <<alert_vars, detector_vars, camera_frames, camera_alert_priority, image_buf,
                   decoded, channel, worker_pc, jobs, event_dir>>

\* ffmpeg.rs 199-201: one frame's worth of bytes, or run() returns the error
\* (a short read: the decoder failed or exited)
ReadImage ==
    /\ decoder_pc = "read"
    /\ \/ /\ Len(decoded) < MaxDecoded
          /\ image_buf' = Some(CameraFrame(camera_frames, Len(decoded) + 1))
          /\ decoded' = Append(decoded, CameraFrame(camera_frames, Len(decoded) + 1))
          /\ decoder_pc' = "send"
       \/ /\ decoder_pc' = "sleep"
          /\ UNCHANGED <<image_buf, decoded>>
    /\ UNCHANGED <<alert_vars, detector_vars, camera_frames, camera_alert_priority, channel,
                   worker_pc, jobs, event_dir>>

\* SendImage dropping the frame when the channel is full
SendImageDropsWhenFull ==
    /\ decoder_pc = "send"
    /\ channel' = IF Len(channel) < ChannelCapacity
                  THEN Append(channel, Unwrap(image_buf))
                  ELSE channel
    /\ image_buf' = None
    /\ decoder_pc' = "read"
    /\ UNCHANGED <<alert_vars, detector_vars, camera_frames, camera_alert_priority, decoded,
                   worker_pc, jobs, event_dir>>

\* ffmpeg.rs 202-208: send(..).await waits while the channel is full
SendImage ==
    /\ decoder_pc = "send"
    /\ Len(channel) < ChannelCapacity
    /\ channel' = Append(channel, Unwrap(image_buf))
    /\ image_buf' = None
    /\ decoder_pc' = "read"
    /\ UNCHANGED <<alert_vars, detector_vars, camera_frames, camera_alert_priority, decoded,
                   worker_pc, jobs, event_dir>>

\* Respawn giving up after a failed run
RespawnGivesUp ==
    /\ decoder_pc = "sleep"
    /\ decoder_pc' = "stopped"
    /\ UNCHANGED <<alert_vars, detector_vars, camera_frames, camera_alert_priority, image_buf,
                   decoded, channel, worker_pc, jobs, event_dir>>

\* Respawn creating the channel and the detector anew for the next run (lines
\* 138-139 moved into the loop)
RespawnNewDetector ==
    /\ decoder_pc = "sleep"
    /\ decoder_pc' = "probe"
    /\ SetSelf(new(config))
    /\ channel' = <<>>
    /\ UNCHANGED <<alert_vars, clock, stats, inputs, drained, drained_times, undrained,
                   camera_frames, camera_alert_priority, image_buf, decoded, worker_pc,
                   jobs, event_dir>>

\* main.rs 233-237: log, sleep 1 s, and run() again
Respawn ==
    /\ decoder_pc = "sleep"
    /\ decoder_pc' = "probe"
    /\ UNCHANGED <<alert_vars, detector_vars, camera_frames, camera_alert_priority, image_buf,
                   decoded, channel, worker_pc, jobs, event_dir>>

\* WorkerCanRecv waiting for every job spawned so far to end
WorkerCanRecvAfterJobs ==
    /\ worker_pc = "recv"
    /\ channel # <<>>
    /\ \A j \in 1..Len(jobs) : jobs[j].state \in {"skipped", "sent", "written", "failed"}

\* main.rs 146: receiver.recv().await returns a frame
WorkerCanRecv ==
    /\ worker_pc = "recv"
    /\ channel # <<>>

\* main.rs 146-151: the next frame goes to frame_recv; the clock has advanced
\* since the previous frame
WorkerRecv ==
    /\ WorkerCanRecv
    /\ DetectorRecv(Head(channel), <<clock + 1, clock + 1>>)
    /\ channel' = Tail(channel)
    /\ worker_pc' = "dispatch"
    /\ UNCHANGED <<alert_vars, camera_frames, camera_alert_priority, decoder_pc, image_buf, decoded,
                   jobs, event_dir>>

\* main.rs 152-219: drain the queue and spawn the jobs of every transition
WorkerDispatch ==
    /\ worker_pc = "dispatch"
    /\ LET r == drain_pending_states(Self)
       IN /\ SetSelf(r.self)
          /\ drained' = drained \o r.ret
          /\ drained_times' = drained_times \o r.ret_times
          /\ jobs' = jobs \o DispatchAll(r.ret_times, r.ret, Len(r.ret))
    /\ worker_pc' = "recv"
    /\ UNCHANGED <<alert_vars, clock, stats, inputs, undrained, camera_frames, camera_alert_priority,
                   decoder_pc, image_buf, decoded, channel, event_dir>>

\* an alert job runs alert_event
AlertEvent ==
    \E j \in 1..Len(jobs) :
        /\ jobs[j].kind = "alert"
        /\ jobs[j].state = "spawned"
        /\ jobs' = [jobs EXCEPT ![j] = alert_event(jobs[j], camera_alert_priority)]
        /\ UNCHANGED <<alert_vars, detector_vars, camera_frames, camera_alert_priority, decoder_pc,
                       image_buf, decoded, channel, worker_pc, event_dir>>

\* the push task of an alert makes its request
AlertPush ==
    \E j \in 1..Len(jobs) :
        /\ jobs[j].kind = "alert"
        /\ jobs[j].state = "pushing"
        /\ jobs' = [jobs EXCEPT ![j] = push(jobs[j])]
        /\ UNCHANGED <<alert_vars, detector_vars, camera_frames, camera_alert_priority, decoder_pc,
                       image_buf, decoded, channel, worker_pc, event_dir>>

\* a clip job starts modect_mp4
ClipStart ==
    \E j \in 1..Len(jobs), spawned \in BOOLEAN :
        /\ jobs[j].kind = "clip"
        /\ jobs[j].state = "spawned"
        /\ jobs' = [jobs EXCEPT ![j] = modect_mp4(jobs[j], spawned)]
        /\ UNCHANGED <<alert_vars, detector_vars, camera_frames, camera_alert_priority, decoder_pc,
                       image_buf, decoded, channel, worker_pc, event_dir>>

\* the encoder of a clip job exits; on success it has written the file
ClipWait ==
    \E j \in 1..Len(jobs), success \in BOOLEAN :
        /\ jobs[j].kind = "clip"
        /\ jobs[j].state = "encoding"
        /\ jobs' = [jobs EXCEPT ![j] = modect_mp4_wait(jobs[j], success)]
        /\ event_dir' = IF success
                        THEN event_dir \cup {EventPath(jobs[j].time, "mp4")}
                        ELSE event_dir
        /\ UNCHANGED <<alert_vars, detector_vars, camera_frames, camera_alert_priority, decoder_pc,
                       image_buf, decoded, channel, worker_pc>>

NextWorker ==
    \/ Probe \/ SpawnDecoder \/ ReadImage \/ SendImage \/ Respawn
    \/ WorkerRecv \/ WorkerDispatch
    \/ AlertEvent \/ AlertPush \/ ClipStart \/ ClipWait

SpecWorker == InitWorker /\ [][NextWorker]_vars

\* the same with what the runtime guarantees: the 1 s sleep ends, a waiting
\* send and the consumer task are scheduled; jobs and the decoder are not
\* bound to make progress.  The consumer's fairness is WF_vars(WorkerRecv)
\* written out: WorkerRecv is enabled exactly when WorkerCanRecv holds
\* (frame_recv is total) and every WorkerRecv step ends it, so weak fairness
\* of WorkerRecv says that WorkerCanRecv does not hold forever
SpecWorkerFair ==
    /\ SpecWorker
    /\ WF_vars(Respawn)
    /\ WF_vars(SendImage)
    /\ []<>~WorkerCanRecv
    /\ WF_vars(WorkerDispatch)

-----------------------------------------------------------------------------
(* Alerts, pushover.rs.  alert_event (237-293) builds a PushoverAlert, gives *)
(* it a preview of the event (attach_jpeg 124-138, attach_gif 140-166,       *)
(* attach_webp 168-235) and spawns the task that pushes it (65-115).         *)
(*                                                                           *)
(* Bytes.  A Vec<u8> is a sequence of chunks [what, of, len]: len bytes that *)
(* an encoder wrote for frame `of`; how many bytes an encoder writes is the  *)
(* encoder's affair and is handed to the operators (lens).                   *)
(*                                                                           *)
(* The f64 of attach_webp.  frame_index is the f64 sum of k copies of the    *)
(* f64 quotient N / 320, every addition rounded to 53 bits, nearest even.    *)
(* Its values are multiples of one power of two 2^(-fb) (fb = 58 - j for     *)
(* 5 * 2^j <= N < 5 * 2^(j+1)), so they are kept as the integer multiple,    *)
(* in four limbs of 16 bits, least significant first.                        *)

MAX_ALERT_ATTACHMENT_SIZE == (1024 * 1024 * 5) \div 2

MAX_WEBP_BYTES_PER_FRAME == 8192

MAX_WEBP_FRAMES == MAX_ALERT_ATTACHMENT_SIZE \div MAX_WEBP_BYTES_PER_FRAME

Limb == 65536

RECURSIVE Pow2(_)
Pow2(n) == IF n = 0 THEN 1 ELSE 2 * Pow2(n - 1)

\* the number of bits of n
RECURSIVE BitLen(_)
BitLen(n) == IF n = 0 THEN 0 ELSE 1 + BitLen(n \div 2)

\* limbs with carries moved up
Carry(l) ==
    LET c0 == l[1] \div Limb
        l1 == l[2] + c0
        c1 == l1 \div Limb
        l2 == l[3] + c1
        c2 == l2 \div Limb
    IN <<l[1] % Limb, l1 % Limb, l2 % Limb, l[4] + c2>>

\* the exponent class of N as f64 / 320.0: 5 * 2^j <= N < 5 * 2^(j+1)
WebpExponent(N) == CHOOSE j \in -3..9 : 5 * Pow2(j + 3) <= 8 * N /\ 8 * N < 5 * Pow2(j + 4)

\* N as f64 / MAX_WEBP_FRAMES as f64 (line 212): the quotient N / 320 rounded
\* to 53 bits, as a multiple of 2^(j - 58)
F64Step(N) ==
    LET j == WebpExponent(N)
        x == N * Pow2(20 - j)              \* the numerator N * 2^(52 - j) is x * 2^32
        n3 == x \div Limb
        n2 == x % Limb
        q3 == n3 \div 5
        r3 == n3 % 5
        q2 == (r3 * Limb + n2) \div 5
        r2 == (r3 * Limb + n2) % 5
        q1 == (r2 * Limb) \div 5
        r1 == (r2 * Limb) % 5
        q0 == (r1 * Limb) \div 5
        r0 == (r1 * Limb) % 5
    IN Carry(<<q0 + (IF 2 * r0 > 5 THEN 1 ELSE 0), q1, q2, q3>>)

\* an exact sum rounded to f64: 53 significant bits, ties to even
F64Round53(l) ==
    LET d == BitLen(l[4]) - 5              \* the bits beyond the 53rd
        r == l[1] % Pow2(d)
        half == Pow2(d - 1)
        odd == (l[1] \div Pow2(d)) % 2 = 1
        up == r > half \/ (r = half /\ odd)
    IN IF d <= 0 THEN l
       ELSE Carry(<<l[1] - r + (IF up THEN Pow2(d) ELSE 0), l[2], l[3], l[4]>>)

\* frame_index += step (line 212)
F64Add(a, b) ==
    F64Round53(Carry(<<a[1] + b[1], a[2] + b[2], a[3] + b[3], a[4] + b[4]>>))

\* frame_index.round() as usize (line 197): halves round away from zero
F64RoundToUsize(a, j) == (a[4] + Pow2(9 - j)) \div Pow2(10 - j)

\* lines 193-195: the variables of the loop of attach_webp
WebpStart ==
    [frame_index |-> <<0, 0, 0, 0>>, last_frame_index |-> -1, added |-> <<>>,
     stopped |-> FALSE, panicked |-> FALSE]

\* one iteration of the loop of attach_webp, lines 197-213, for an event of N
\* frames.  last_frame_index is an isize that starts at -1; `as usize` makes
\* that usize::MAX, so in the first iteration the comparison of line 198 is
\* true and line 199 adds 1 to usize::MAX: a panic in a build with overflow
\* checks, 0 in a build without.
WebpIteration(loop, N, overflow_checks) ==
    LET rounded == F64RoundToUsize(loop.frame_index, WebpExponent(N))
        bumped == loop.last_frame_index < 0 \/ rounded <= loop.last_frame_index
        target_index == IF bumped THEN loop.last_frame_index + 1 ELSE rounded
    IN IF loop.stopped
       THEN loop
       ELSE IF loop.last_frame_index < 0 /\ overflow_checks
       THEN [loop EXCEPT !.stopped = TRUE, !.panicked = TRUE]
       ELSE IF target_index >= N
       THEN [loop EXCEPT !.stopped = TRUE]
       ELSE [loop EXCEPT !.frame_index = F64Add(@, F64Step(N)),
                         !.last_frame_index = target_index,
                         !.added = Append(@, target_index)]

\* lines 196-214, count iterations of the loop: the first half, then the rest
RECURSIVE WebpIterate(_, _, _, _)
WebpIterate(loop, N, overflow_checks, count) ==
    IF count = 0 THEN loop
    ELSE IF count = 1 THEN WebpIteration(loop, N, overflow_checks)
    ELSE CHOOSE after \in
             {WebpIterate(half, N, overflow_checks, count - count \div 2) :
                 half \in {WebpIterate(loop, N, overflow_checks, count \div 2)}} : TRUE

\* lines 196-214: for encoded_frame_index in 0..MAX_WEBP_FRAMES
WebpLoop(N, overflow_checks) == WebpIterate(WebpStart, N, overflow_checks, MAX_WEBP_FRAMES)

\* Vec<u8>: chunks [what, of, end], end the offset after the chunk
VecLen(v) == IF v = <<>> THEN 0 ELSE v[Len(v)].end

\* Write::write of len bytes at the end of the vector
Write(v, what, of, len) == Append(v, [what |-> what, of |-> of, end |-> VecLen(v) + len])

\* Vec::truncate(len)
Truncate(v, len) ==
    LET kept == SelectSeq(v, LAMBDA c : c.end <= len)
    IN IF Len(kept) < Len(v) /\ VecLen(kept) < len
       THEN Append(kept, [v[Len(kept) + 1] EXCEPT !.end = len])
       ELSE kept

\* PushoverAlert::default()
PushoverAlertDefault ==
    [attachment |-> <<>>, filename |-> None, attachment_type |-> None,
     priority |-> None, timestamp |-> None, title |-> None, message |-> None]

\* PushoverAlert::new(), lines 53-63, under CONFIG.pushover = pushover
PushoverAlertNew(pushover) ==
    IF pushover = None
    THEN PushoverAlertDefault
    ELSE [PushoverAlertDefault EXCEPT !.priority = Some(Unwrap(pushover).priority)]

\* MaxByIteration keeping the frame seen so far when the two compare Equal
MaxByIterationKeepsFirst(loop, frames) ==
    LET x == frames[loop.best]
        y == frames[loop.next]
    IN [best |-> IF FGe(x.change, y.change) THEN loop.best ELSE loop.next,
        next |-> loop.next + 1]

\* Iterator::max_by with the comparison of line 128, one step of its fold over
\* frames: the frame seen so far stays only if it compares Greater
MaxByIteration(loop, frames) ==
    LET x == frames[loop.best]
        y == frames[loop.next]
    IN [best |-> IF FGt(x.change, y.change) THEN loop.best ELSE loop.next,
        next |-> loop.next + 1]

\* count steps of the fold of max_by: the first half, then the rest
RECURSIVE MaxByFold(_, _, _)
MaxByFold(loop, frames, count) ==
    IF count = 0 THEN loop
    ELSE IF count = 1 THEN MaxByIteration(loop, frames)
    ELSE CHOOSE after \in
             {MaxByFold(half, frames, count - count \div 2) :
                 half \in {MaxByFold(loop, frames, count \div 2)}} : TRUE

\* the index of the frame max_by returns (frames not empty)
MaxByChange(frames) == MaxByFold([best |-> 1, next |-> 2], frames, Len(frames) - 1).best

\* attach_jpeg, lines 124-138; lens.jpeg[i]: the bytes of frame i as a jpeg
attach_jpeg(a, event, lens) ==
    IF event.frames = <<>>
    THEN a
    ELSE LET best_frame == MaxByChange(event.frames)
         IN [a EXCEPT !.attachment_type = Some("image/jpeg"),
                      !.filename = Some("event.jpeg"),
                      !.attachment = Write(<<>>, "jpeg", best_frame, lens.jpeg)]

\* GifIteration recording the length before it tests it
GifIterationAcceptsOverflow(loop, lens) ==
    LET written == Write(loop.attachment, "gif", loop.next, lens.gif)
        len == VecLen(written)
    IN IF loop.stopped
       THEN loop
       ELSE IF len > MAX_ALERT_ATTACHMENT_SIZE
       THEN [loop EXCEPT !.attachment = written, !.stopped = TRUE,
                         !.acceptable_ending = len,
                         !.encoded = Append(@, loop.next)]
       ELSE [loop EXCEPT !.attachment = written, !.acceptable_ending = len,
                         !.encoded = Append(@, loop.next), !.next = @ + 1]

\* one frame of the loop of attach_gif, lines 145-160; lens.gif: the bytes
\* encode_frame writes for one frame
GifIteration(loop, lens) ==
    LET written == Write(loop.attachment, "gif", loop.next, lens.gif)
        len == VecLen(written)
    IN IF loop.stopped
       THEN loop
       ELSE IF len > MAX_ALERT_ATTACHMENT_SIZE
       THEN [loop EXCEPT !.attachment = written, !.stopped = TRUE,
                         !.encoded = Append(@, loop.next)]
       ELSE [loop EXCEPT !.attachment = written, !.acceptable_ending = len,
                         !.encoded = Append(@, loop.next), !.next = @ + 1]

\* lines 145-160, count frames of the loop: the first half, then the rest
RECURSIVE GifLoop(_, _, _)
GifLoop(loop, lens, count) ==
    IF count = 0 THEN loop
    ELSE IF count = 1 THEN GifIteration(loop, lens)
    ELSE CHOOSE after \in
             {GifLoop(half, lens, count - count \div 2) :
                 half \in {GifLoop(loop, lens, count \div 2)}} : TRUE

\* attach_gif, lines 140-166: the encoder appends to the alert's attachment as
\* it is (ObservableBuf::new, observable_buf.rs 15-24, starts from its length);
\* dropping the encoder writes the trailer
attach_gif(a, event, lens) ==
    LET loop == GifLoop([attachment |-> a.attachment, acceptable_ending |-> 0,
                         stopped |-> FALSE, encoded |-> <<>>, next |-> 1],
                        lens, Len(event.frames))
        dropped == IF loop.encoded = <<>> THEN loop.attachment
                   ELSE Write(loop.attachment, "gif_trailer", 0, 1)
    IN [alert |-> [a EXCEPT !.attachment = Truncate(dropped, loop.acceptable_ending),
                            !.attachment_type = Some("image/gif"),
                            !.filename = Some("event.gif")],
        encoded |-> loop.encoded]

\* attach_webp, lines 168-235; lens.webp: the bytes the encoder's finalize
\* returns; test_webp_written: whether ./test.webp could be written (222-224)
attach_webp(a, event, lens, overflow_checks, test_webp_written) ==
    LET loop == WebpLoop(Len(event.frames), overflow_checks)
        finalized == [a EXCEPT !.attachment = Write(<<>>, "webp", 0, lens.webp)]
    IN IF event.frames = <<>>
       THEN [alert |-> a, added |-> <<>>, panicked |-> TRUE]
       ELSE IF loop.panicked
       THEN [alert |-> a, added |-> loop.added, panicked |-> TRUE]
       ELSE IF ~test_webp_written
       THEN [alert |-> finalized, added |-> loop.added, panicked |-> TRUE]
       ELSE IF VecLen(finalized.attachment) > MAX_ALERT_ATTACHMENT_SIZE
       THEN [alert |-> finalized, added |-> loop.added, panicked |-> FALSE]
       ELSE [alert |-> [finalized EXCEPT !.attachment_type = Some("image/webp"),
                                       !.filename = Some("event.webp")],
             added |-> loop.added, panicked |-> FALSE]

\* CONFIG.pushover.map(|x| x.preview_format).unwrap_or(PreviewFormat::None), 268-272
PreviewFormatOf(pushover) ==
    IF pushover = None THEN "None" ELSE Unwrap(pushover).preview_format

\* lines 245-266 of alert_event: the alert before its preview
AlertHead(call) ==
    LET a0 == PushoverAlertNew(call.pushover)
        a1 == IF call.camera_alert_priority # None
              THEN [a0 EXCEPT !.priority = call.camera_alert_priority]
              ELSE a0
    IN [a1 EXCEPT
          !.timestamp = Some(call.time),
          !.title = Some(call.state),
          !.priority = IF call.state = "CompletedAfterConfirm" THEN Some("Lowest") ELSE @,
          !.message = Some([total_score |-> call.event.total_score,
                            start_frame |-> call.event.start_stream_frame_number,
                            total_frames |-> call.event.end_stream_frame_number
                                               - call.event.start_stream_frame_number])]

\* EffectivePriority read after the title's arm has lowered the priority
EffectivePriorityAfterTitle(call) == AlertHead(call).priority

\* the priority the test of line 249 looks at
EffectivePriority(call) ==
    IF call.camera_alert_priority # None
    THEN call.camera_alert_priority
    ELSE PushoverAlertNew(call.pushover).priority

NoneEncoded == [gif |-> <<>>, webp |-> <<>>]

\* alert_event, lines 237-293, up to the spawn of the push task: where the
\* call ends ("returned" at line 250, "spawned" at 290, "panicked"), the alert
\* built and the frames handed to the encoders
alert_event_call(call) ==
    LET head == AlertHead(call)
        format == PreviewFormatOf(call.pushover)
        jpeg == attach_jpeg(head, call.event, call.lens)
        gif == attach_gif(head, call.event, call.lens)
        webp == attach_webp(head, call.event, call.lens, call.overflow_checks,
                            call.test_webp_written)
        fallback == attach_gif(webp.alert, call.event, call.lens)
    IN IF EffectivePriority(call) = Some("Ignore")
       THEN [pc |-> "returned", alert |-> None, encoded |-> NoneEncoded]
       ELSE IF format = "None"
       THEN [pc |-> "spawned", alert |-> head, encoded |-> NoneEncoded]
       ELSE IF format = "Jpeg"
       THEN [pc |-> "spawned", alert |-> jpeg, encoded |-> NoneEncoded]
       ELSE IF format = "Gif"
       THEN [pc |-> "spawned", alert |-> gif.alert,
             encoded |-> [gif |-> gif.encoded, webp |-> <<>>]]
       ELSE IF webp.panicked
       THEN [pc |-> "panicked", alert |-> webp.alert,
             encoded |-> [gif |-> <<>>, webp |-> webp.added]]
       ELSE IF webp.alert.attachment_type = None
       THEN [pc |-> "spawned", alert |-> fallback.alert,
             encoded |-> [gif |-> fallback.encoded, webp |-> webp.added]]
       ELSE [pc |-> "spawned", alert |-> webp.alert,
             encoded |-> [gif |-> <<>>, webp |-> webp.added]]

\* PushoverAlert::push, lines 65-115: the request made (nothing without a
\* pushover configuration); an empty attachment is left out (line 86)
PushRequest(a) ==
    [priority |-> a.priority, timestamp |-> a.timestamp, title |-> a.title,
     message |-> a.message, attachment_type |-> a.attachment_type,
     attachment |-> IF a.attachment = <<>> THEN None
                    ELSE Some([bytes |-> a.attachment, filename |-> a.filename,
                               mime |-> a.attachment_type])]

\* the score after count more frames, modect.rs 171 for each: the first half,
\* then the rest
RECURSIVE ScoreAfter(_, _, _)
ScoreAfter(loop, frames, count) ==
    IF count = 0 THEN loop
    ELSE IF count = 1
    THEN [sum |-> FAdd(loop.sum, frames[loop.next].change), next |-> loop.next + 1]
    ELSE CHOOSE after \in
             {ScoreAfter(half, frames, count - count \div 2) :
                 half \in {ScoreAfter(loop, frames, count \div 2)}} : TRUE

\* event.total_score of an event with these frames
TotalChange(frames) == ScoreAfter([sum |-> Zero, next |-> 1], frames, Len(frames)).sum

\* an event with these frames, starting at stream frame 0
EventOf(frames) ==
    MotionDetectionEvent(0, Len(frames) - 1, frames, TotalChange(frames))

\* the events alerts are built for: every short one with changes 1 and 2, and
\* long ones around MAX_WEBP_FRAMES frames, all of change 1
AlertEvents ==
    {EventOf([i \in DOMAIN changes |-> MotionDetectionFrame("X", F(changes[i]), Zero)]) :
        changes \in UNION {[1..n -> {1, 2}] : n \in 1..MaxAlertFrames}}
    \cup {EventOf([i \in 1..n |-> MotionDetectionFrame("X", F(1), Zero)]) :
            n \in (MAX_WEBP_FRAMES - 1)..(MAX_WEBP_FRAMES + 2)}

\* CONFIG.pushover: absent, or with a priority and a preview format
PushoverConfigs ==
    {None} \cup {Some([priority |-> priority, preview_format |-> preview_format]) :
                    priority \in {"Ignore", "Normal"},
                    preview_format \in {"None", "Jpeg", "Gif", "Webp"}}

\* the bytes an encoder may write for one frame: little, half of the cap, more
\* than the cap
FrameLens ==
    {MAX_WEBP_BYTES_PER_FRAME, MAX_ALERT_ATTACHMENT_SIZE \div 2, MAX_ALERT_ATTACHMENT_SIZE + 1}

\* the bytes the webp encoder may return: under, at and over the cap
WebpLens ==
    {MAX_ALERT_ATTACHMENT_SIZE \div 2, MAX_ALERT_ATTACHMENT_SIZE, MAX_ALERT_ATTACHMENT_SIZE + 1}

\* one call of alert_event (main.rs 182, 202).  A call reads lens.jpeg only for
\* a jpeg preview and lens.gif only for a gif, so one choice serves both; what
\* a call never reads is held at one value: the build's overflow checks
\* without a webp preview, the write of ./test.webp when line 199 panics
\* before it, the webp length when the call does not get past that write.
InitAlert ==
    /\ InitDetector({WorkerConfig})
    /\ NoWorker
    /\ \E pushover \in PushoverConfigs, priority \in {None, Some("Ignore"), Some("High")},
          state \in {"Confirmed", "Completed", "CompletedAfterConfirm"},
          event \in AlertEvents, len \in FrameLens, webp \in WebpLens,
          overflow_checks \in BOOLEAN, test_webp_written \in BOOLEAN :
          /\ PreviewFormatOf(pushover) # "Webp" => ~overflow_checks
          /\ (PreviewFormatOf(pushover) # "Webp" \/ overflow_checks) => test_webp_written
          /\ (PreviewFormatOf(pushover) # "Webp" \/ overflow_checks \/ ~test_webp_written)
                => webp = MAX_ALERT_ATTACHMENT_SIZE \div 2
          /\ alert_call = [pushover |-> pushover, camera_alert_priority |-> priority,
                           state |-> state, time |-> 0, event |-> event,
                           lens |-> [jpeg |-> len, gif |-> len, webp |-> webp],
                           overflow_checks |-> overflow_checks,
                           test_webp_written |-> test_webp_written]
    /\ alert = None
    /\ alert_pc = "call"
    /\ requests = <<>>
    /\ encoded = NoneEncoded

\* the alert task runs alert_event (main.rs 180-187, 200-211)
AlertEventCall ==
    /\ alert_pc = "call"
    /\ \E r \in {alert_event_call(alert_call)} :
          /\ alert_pc' = r.pc
          /\ alert' = r.alert
          /\ encoded' = r.encoded
    /\ UNCHANGED <<alert_call, requests, detector_vars, worker_vars>>

\* the task spawned at lines 290-292 runs push
PushoverAlertPush ==
    /\ alert_pc = "spawned"
    /\ alert_pc' = "pushed"
    /\ requests' = IF alert_call.pushover = None THEN requests
                   ELSE Append(requests, PushRequest(alert))
    /\ UNCHANGED <<alert_call, alert, encoded, detector_vars, worker_vars>>

NextAlert == AlertEventCall \/ PushoverAlertPush

SpecAlert == InitAlert /\ [][NextAlert]_vars

\* every transition the detector has produced, in order
Emitted == drained \o pending_states

\* and their timestamps
EmittedTimes == drained_times \o pending_times

-----------------------------------------------------------------------------
(* Properties of the transition stream *)

IsTerminal(t) == t.tag \in {"Rejected", "Completed"}

HasEvent(t) == t.tag \in {"Rejected", "Completed", "ConfirmedInProgress"}

\* the positions of Emitted before i that hold a Rejected or Completed
TerminalsBefore(i) == {j \in 1..(i - 1) : IsTerminal(Emitted[j])}

\* position j lies in the run that the terminal transition at position i ends:
\* after the previous Rejected/Completed, or since the detector's creation
SameRun(j, i) == j < i /\ \A k \in TerminalsBefore(i) : k < j

\* C1: a run gets at most one terminal transition, one of Rejected or Completed: every
\* Rejected/Completed is directly followed by the Idle of the reset, the next one
\* belongs to a later run (its event starts after the earlier event's end), and
\* the detector is left without a run.
C1_OneTerminalPerRun ==
    \A i \in 1..Len(Emitted) :
        IsTerminal(Emitted[i]) =>
            /\ i < Len(Emitted)
            /\ Emitted[i + 1] = Idle(Emitted[i].event.end_stream_frame_number + 1)
            /\ \A j \in TerminalsBefore(i) :
                  Emitted[j].event.end_stream_frame_number
                      < Emitted[i].event.start_stream_frame_number
            /\ (i + 1 = Len(Emitted) =>
                  current_detection = <<>> /\ detection_start_frame = None)

\* two runs have ended, one Rejected and one Completed
C1_Witness ==
    /\ \E i \in 1..Len(Emitted) : Emitted[i].tag = "Rejected"
    /\ \E i \in 1..Len(Emitted) : Emitted[i].tag = "Completed"

\* C2: a Completed carries was_confirmed_already = TRUE iff a ConfirmedInProgress
\* was emitted earlier in the same run.
C2_ConfirmedFlag ==
    \A i \in 1..Len(Emitted) :
        Emitted[i].tag = "Completed" =>
            (Emitted[i].was_confirmed_already
                <=> \E j \in 1..(i - 1) :
                        /\ SameRun(j, i)
                        /\ Emitted[j].tag = "ConfirmedInProgress"
                        /\ Emitted[j].event.start_stream_frame_number
                              = Emitted[i].event.start_stream_frame_number)

\* a confirmed run completed, and a later run completed without confirmation
C2_Witness ==
    \E i, j \in 1..Len(Emitted) :
        /\ i < j
        /\ Emitted[i].tag = "Completed" /\ Emitted[i].was_confirmed_already
        /\ Emitted[j].tag = "Completed" /\ ~Emitted[j].was_confirmed_already

\* C3: a Rejected or Completed event has end >= start and at least one frame, and
\* its frames are the stream's frames from index start on, in order.
C3_EventFrames ==
    \A i \in 1..Len(Emitted) :
        IsTerminal(Emitted[i]) =>
            LET e == Emitted[i].event
            IN /\ e.end_stream_frame_number >= e.start_stream_frame_number
               /\ Len(e.frames) >= 1
               /\ \A k \in 1..Len(e.frames) :
                     /\ e.start_stream_frame_number + k <= Len(inputs)
                     /\ e.frames[k].image = inputs[e.start_stream_frame_number + k]

\* a terminal event that holds a pre-roll frame, motion, a spliced post-roll
\* frame, motion again and the final post-roll
C3_Witness ==
    \E i \in 1..Len(Emitted) :
        /\ IsTerminal(Emitted[i])
        /\ Len(Emitted[i].event.frames) >= 5
        /\ config.change_minimum = F(1)
        /\ \E k \in 2..(Len(Emitted[i].event.frames) - 1) :
              /\ Emitted[i].event.frames[k].change = Zero
              /\ Emitted[i].event.frames[k + 1].change # Zero

\* C4: every event (Rejected, Completed, ConfirmedInProgress) has
\* frames.length >= end - start.
C4_FramesCoverRange ==
    \A i \in 1..Len(Emitted) :
        HasEvent(Emitted[i]) =>
            Len(Emitted[i].event.frames)
                >= Emitted[i].event.end_stream_frame_number
                     - Emitted[i].event.start_stream_frame_number

\* a ConfirmedInProgress event with frames.length = end - start and a terminal
\* event with frames.length > end - start
C4_Witness ==
    /\ \E i \in 1..Len(Emitted) :
          /\ Emitted[i].tag = "ConfirmedInProgress"
          /\ Len(Emitted[i].event.frames)
                = Emitted[i].event.end_stream_frame_number
                    - Emitted[i].event.start_stream_frame_number
    /\ \E i \in 1..Len(Emitted) :
          /\ IsTerminal(Emitted[i])
          /\ Len(Emitted[i].event.frames)
                > Emitted[i].event.end_stream_frame_number
                    - Emitted[i].event.start_stream_frame_number

\* the pairs <<Emitted[i].tag, Emitted[i + 1].tag>> of neighbouring non-Idle transitions
NonIdlePairs ==
    {<<Emitted[i].tag, Emitted[i + 1].tag>> :
        i \in {k \in 1..(Len(Emitted) - 1) :
                  Emitted[k].tag # "Idle" /\ Emitted[k + 1].tag # "Idle"}}

\* the edges of the diagram of section 4.2 as the claim lists them
DiagramEdges ==
    {<<"WaitAndSee", "Active">>, <<"WaitAndSee", "WaitAndSee">>, <<"Active", "Active">>,
     <<"Active", "ConfirmedInProgress">>, <<"ConfirmedInProgress", "Followup">>,
     <<"WaitAndSee", "Followup">>, <<"Active", "Followup">>, <<"Followup", "Followup">>,
     <<"Followup", "WaitAndSee">>, <<"Followup", "Active">>,
     <<"Followup", "Rejected">>, <<"Followup", "Completed">>}

\* C5 as claimed: between two Idle transitions the non-Idle transitions follow
\* the edges of the diagram; ConfirmedInProgress is reached from Active and is
\* followed by Followup.
C5_DiagramPath == NonIdlePairs \subseteq DiagramEdges

\* the edges the detector takes
DetectorEdges ==
    {<<"WaitAndSee", "WaitAndSee">>, <<"WaitAndSee", "Active">>,
     <<"WaitAndSee", "Followup">>, <<"WaitAndSee", "Rejected">>,
     <<"Active", "Active">>, <<"Active", "ConfirmedInProgress">>,
     <<"Active", "Followup">>, <<"Active", "Completed">>,
     <<"ConfirmedInProgress", "Active">>,
     <<"Followup", "Followup">>, <<"Followup", "WaitAndSee">>, <<"Followup", "Active">>,
     <<"Followup", "ConfirmedInProgress">>,
     <<"Followup", "Rejected">>, <<"Followup", "Completed">>}

\* C5 amended: between two Idle transitions the non-Idle transitions follow
\* DetectorEdges; the run opens with WaitAndSee, Active or ConfirmedInProgress;
\* ConfirmedInProgress is always directly followed by Active; Rejected and
\* Completed are directly followed by Idle, and with followup_frame_count > 0
\* they directly follow Followup.
C5_DetectorPath ==
    /\ NonIdlePairs \subseteq DetectorEdges
    /\ \A i \in 1..Len(Emitted) :
          /\ (i = 1 => Emitted[i].tag = "Idle")
          /\ (Emitted[i].tag = "Idle" /\ i < Len(Emitted) =>
                Emitted[i + 1].tag \in {"WaitAndSee", "Active", "ConfirmedInProgress"})
          /\ (Emitted[i].tag = "ConfirmedInProgress" =>
                i < Len(Emitted) /\ Emitted[i + 1].tag = "Active")
          /\ (IsTerminal(Emitted[i]) =>
                /\ i < Len(Emitted) /\ Emitted[i + 1].tag = "Idle"
                /\ (config.followup_frame_count > 0 => Emitted[i - 1].tag = "Followup"))

\* a run that went Active, ConfirmedInProgress, Active, Followup, Completed
C5_Witness ==
    \E i \in 1..(Len(Emitted) - 4) :
        /\ Emitted[i].tag = "Active"
        /\ Emitted[i + 1].tag = "ConfirmedInProgress"
        /\ Emitted[i + 2].tag = "Active"
        /\ Emitted[i + 3].tag = "Followup"
        /\ Emitted[i + 4].tag = "Completed"

\* every frame received so far is the same image
IdenticalFrames == \A i, j \in 1..Len(inputs) : inputs[i] = inputs[j]

OnlyIdle == \A i \in 1..Len(Emitted) : Emitted[i].tag = "Idle"

\* C6 as claimed: for identical frames and any configuration only Idle
\* transitions are emitted.
C6_IdenticalFramesOnlyIdle == IdenticalFrames => OnlyIdle

\* a diff of average 0 and stddev 0 passes the configuration's thresholds
ZeroDiffPasses(cfg) ==
    /\ cfg.change_minimum.n < 0
    /\ cfg.change_maximum.n > 0
    /\ cfg.stddev_minimum.n < 0

\* C6 amended: for identical frames only the bootstrap Idle is emitted, in every
\* configuration but those with change_minimum < 0 < change_maximum and
\* stddev_minimum < 0.
C6_IdenticalFramesIdleUnlessNegativeMinimums ==
    (IdenticalFrames /\ ~ZeroDiffPasses(config)) =>
        (OnlyIdle /\ Len(Emitted) <= 1)

\* MaxFrames identical frames were fed under thresholds that include a zero minimum
C6_Witness ==
    /\ IdenticalFrames
    /\ Len(inputs) >= 4
    /\ ~ZeroDiffPasses(config)
    /\ config.change_minimum = Zero
    /\ Emitted = <<Idle(0)>>

\* C7: after the first frame_recv of a fresh detector exactly one transition,
\* Idle{frame_number = 0}, has been enqueued, the frame is the previous frame,
\* the stats returned are {0, 0, 0}, the run, post-roll buffer, score, start and
\* confirmed flag are as new() left them, and the frame counter is 1.
C7_Bootstrap ==
    frame_number = 1 =>
        /\ Emitted = <<Idle(0)>>
        /\ last_frame = Some(inputs[1])
        /\ stats = [change |-> Zero, stddev |-> Zero, frame_number |-> 0]
        /\ current_detection = <<>>
        /\ followup_frames = <<>>
        /\ current_detection_score = Zero
        /\ detection_start_frame = None
        /\ detection_confirmed = FALSE

\* the first frame has been received and its Idle is still in the queue
C7_Witness == frame_number = 1 /\ Len(inputs) = 1 /\ pending_states = <<Idle(0)>>

-----------------------------------------------------------------------------
(* The scenarios of section 8, under SpecScenario *)

Tags(seq) == [i \in 1..Len(seq) |-> seq[i].tag]

\* the diff of stream frame i against stream frame i - 1, for i >= 1
StreamDiff(i) == DiffTable[mask_image][inputs[i]][inputs[i + 1]]

\* stream frame i is motion-positive
Positive(i) == IsMotion(config, StreamDiff(i))

\* the sum of the changes of stream frames 1..i
RECURSIVE ChangeUpTo(_)
ChangeUpTo(i) == IF i = 0 THEN Zero ELSE FAdd(ChangeUpTo(i - 1), StreamDiff(i).average)

FiveA == <<"A", "A", "A", "A", "A">>

\* C8 as claimed: A,A,A,A,A produces Idle(0), Idle(1), Idle(2), Idle(3), Idle(4).
C8_OneIdlePerFrame ==
    inputs = FiveA => Emitted = <<Idle(0), Idle(1), Idle(2), Idle(3), Idle(4)>>

\* C8 amended: A,A,A,A,A produces exactly one transition, the bootstrap Idle(0);
\* frames 1..4 are motion-negative with no run open and produce nothing.
C8_OnlyBootstrapIdle == inputs = FiveA => Emitted = <<Idle(0)>>

C8_Witness == inputs = FiveA /\ frame_number = 5

ScenarioS2 == <<"A", "B", "A", "A", "A">>

\* Idle, WaitAndSee(start = 0, run length 2), Followup, Followup,
\* Rejected{end = 3, frames.len = 4}, Idle
S2Transitions ==
    /\ Tags(Emitted) = <<"Idle", "WaitAndSee", "Followup", "Followup", "Rejected", "Idle">>
    /\ Emitted[1] = Idle(0)
    /\ Emitted[2].start_frame_number = 0
    /\ Emitted[2].current_frame_number = 1
    /\ Emitted[5].event.start_stream_frame_number = 0
    /\ Emitted[5].event.end_stream_frame_number = 3
    /\ Len(Emitted[5].event.frames) = 4
    /\ Emitted[6] = Idle(4)

\* C9 as claimed: A,B,A,A,A produces the transitions of S2.
C9_ScenarioS2 == inputs = ScenarioS2 => S2Transitions

\* C9 amended: A,B,A,A,A produces only Idle(0) (the diff of two uniformly
\* coloured frames has stddev 0, which is not above stddev_minimum 0); the
\* transitions of S2 are those of a five-frame stream whose frame 1 is
\* motion-positive and whose frames 2..4 are motion-negative.
C9_UniformFramesNoMotion ==
    /\ inputs = ScenarioS2 => Emitted = <<Idle(0)>>
    /\ (Len(inputs) = 5 /\ Positive(1) /\ \A i \in 2..4 : ~Positive(i)) => S2Transitions

C9_Witness == inputs = ScenarioS2 /\ Emitted = <<Idle(0)>>

\* the stream of S3: eight frames, 1..4 motion-positive with total score >= 10,
\* 5..7 motion-negative
StreamS3 ==
    /\ Len(inputs) = 8
    /\ \A i \in 1..4 : Positive(i)
    /\ \A i \in 5..7 : ~Positive(i)
    /\ FGe(ChangeUpTo(4), config.minimum_total_change)

\* the transitions S3 has apart from the run states of frames 3 and 4 and the
\* number of frames of the event
S3Frame(len) ==
    /\ Emitted[1] = Idle(0)
    /\ Emitted[2].tag = "WaitAndSee" /\ Emitted[2].current_frame_number = 1
    /\ Emitted[3].tag = "WaitAndSee" /\ Emitted[3].current_frame_number = 2
    /\ Emitted[4].current_frame_number = 3
    /\ Emitted[5].current_frame_number = 4
    /\ Emitted[6].tag = "Followup" /\ Emitted[6].current_frame_number = 5
    /\ Emitted[7].tag = "Followup" /\ Emitted[7].current_frame_number = 6
    /\ Emitted[8].tag = "Completed"
    /\ Emitted[8].was_confirmed_already = FALSE
    /\ Emitted[8].event.start_stream_frame_number = 0
    /\ Emitted[8].event.end_stream_frame_number = 6
    /\ Len(Emitted[8].event.frames) = len
    /\ Emitted[9] = Idle(7)

\* C10 as claimed: WaitAndSee while the run length is <= 3, Active from run
\* length 4, and a Completed event of 6 frames.
C10_ScenarioS3 ==
    StreamS3 =>
        /\ Len(Emitted) = 9
        /\ S3Frame(6)
        /\ Emitted[4].tag = "Active"
        /\ Emitted[5].tag = "Active"

\* C10 amended: the Completed event has 7 frames (pre-roll frame 0, frames 1..4,
\* post-roll frames 5 and 6), and the run state of frames 3 and 4 (run lengths 4
\* and 5) is Active once the score so far is >= 10 and WaitAndSee before.
C10_ScenarioS3SevenFrames ==
    StreamS3 =>
        /\ Len(Emitted) = 9
        /\ S3Frame(7)
        /\ \A i \in 3..4 :
              Emitted[i + 1].tag =
                  IF FGe(ChangeUpTo(i), config.minimum_total_change)
                  THEN "Active" ELSE "WaitAndSee"

\* an S3 stream whose score reaches 10 only with frame 4
C10_Witness ==
    /\ StreamS3
    /\ Emitted[4].tag = "WaitAndSee"
    /\ Emitted[5].tag = "Active"
    /\ Emitted[8].tag = "Completed"

-----------------------------------------------------------------------------
(* In-progress confirmation *)

IsRunState(t) == t.tag \in {"WaitAndSee", "Active"}

\* the frames a run must have lasted before it may be confirmed in progress
ConfirmBudget ==
    config.maximum_frame_wait + config.followup_frame_count + config.minimum_frame_count

\* a ConfirmedInProgress of the run starting at s was emitted before position i
ConfirmedBefore(s, i) ==
    \E j \in 1..(i - 1) :
        /\ Emitted[j].tag = "ConfirmedInProgress"
        /\ Emitted[j].event.start_stream_frame_number = s

\* stream frames a..b are all motion-positive
AllPositive(a, b) == \A k \in a..b : Positive(k)

\* C11 as claimed: in a run of uninterrupted motion-positive frames whose
\* accumulated score is >= minimum_total_change, the ConfirmedInProgress is
\* emitted on the first frame n with n - start > maximum_frame_wait +
\* followup_frame_count + minimum_frame_count, i.e. on frame start + budget + 1.
C11_ConfirmedAtBudgetFrame ==
    \A i \in 1..Len(Emitted) :
        LET t == Emitted[i]
        IN (/\ IsRunState(t)
            /\ AllPositive(t.start_frame_number + 1, t.current_frame_number)
            /\ FGe(t.current_score, config.minimum_total_change)
            /\ t.current_frame_number - t.start_frame_number > ConfirmBudget)
           => \E j \in 1..(i - 1) :
                 /\ Emitted[j].tag = "ConfirmedInProgress"
                 /\ Emitted[j].event.start_stream_frame_number = t.start_frame_number
                 /\ Emitted[j].event.end_stream_frame_number
                       = t.start_frame_number + ConfirmBudget + 1

\* C11 amended: a run gets at most one ConfirmedInProgress; it is emitted, just
\* before the frame's WaitAndSee/Active, on the first motion-positive frame n
\* with n - start > budget whose score accumulated BEFORE frame n (frames
\* start..n-1) is >= minimum_total_change; a run that got one never ends
\* Rejected, and ends with Completed{was_confirmed_already = TRUE}.
C11_ConfirmedOnce ==
    \A i \in 1..Len(Emitted) :
        LET t == Emitted[i]
        IN /\ IsRunState(t) =>
                LET n == t.current_frame_number
                    s == t.start_frame_number
                    before == FSub(t.current_score, StreamDiff(n).average)
                    here == /\ i > 1
                            /\ Emitted[i - 1].tag = "ConfirmedInProgress"
                            /\ Emitted[i - 1].event.start_stream_frame_number = s
                            /\ Emitted[i - 1].event.end_stream_frame_number = n
                            /\ Emitted[i - 1].event.total_score = before
                IN here <=> /\ FGe(before, config.minimum_total_change)
                            /\ n - s > ConfirmBudget
                            /\ ~ConfirmedBefore(s, i - 1)
           /\ t.tag = "ConfirmedInProgress" =>
                /\ i < Len(Emitted)
                /\ IsRunState(Emitted[i + 1])
                /\ Emitted[i + 1].start_frame_number = t.event.start_stream_frame_number
                /\ Emitted[i + 1].current_frame_number = t.event.end_stream_frame_number
                /\ ~ConfirmedBefore(t.event.start_stream_frame_number, i)
           /\ (IsTerminal(t) /\ ConfirmedBefore(t.event.start_stream_frame_number, i)) =>
                t.tag = "Completed" /\ t.was_confirmed_already

\* a run passed its budget frame with too little score, was confirmed on a
\* later frame, and completed
C11_Witness ==
    \E i, j, k \in 1..Len(Emitted) :
        /\ i < j /\ j < k
        /\ IsRunState(Emitted[i])
        /\ Emitted[i].current_frame_number - Emitted[i].start_frame_number > ConfirmBudget
        /\ Emitted[j].tag = "ConfirmedInProgress"
        /\ Emitted[j].event.start_stream_frame_number = Emitted[i].start_frame_number
        /\ Emitted[k].tag = "Completed"
        /\ Emitted[k].was_confirmed_already
        /\ Emitted[k].event.start_stream_frame_number = Emitted[i].start_frame_number

-----------------------------------------------------------------------------
(* Timestamps *)

\* C12: all transitions appended by one frame_recv call carry the same
\* wall-clock timestamp, whatever the clock does between the appends.
C12_SameWallClock ==
    [][\A i, j \in (Len(EmittedTimes) + 1)..Len(EmittedTimes') :
           EmittedTimes'[i] = EmittedTimes'[j]]_vars

-----------------------------------------------------------------------------
(* Draining *)

\* the detector's fields other than the queue
DetectorFields ==
    <<config, mask_image, last_frame, frame_number, current_detection, followup_frames,
      detection_start_frame, detection_confirmed, current_detection_score>>

\* C13: drain_pending_states yields every pending transition exactly once, in
\* the order produced, and leaves the queue empty; it changes no other
\* detector field, so whether and when it is called does not matter to what
\* later frames produce: the transitions yielded so far followed by the queue
\* are the queue of a detector that got the same frames and was never drained,
\* and the other fields of the two detectors are equal.
C13_Drain ==
    [][/\ inputs' = inputs =>
            /\ drained' = drained \o pending_states
            /\ drained_times' = drained_times \o pending_times
            /\ pending_states' = <<>>
            /\ pending_times' = <<>>
            /\ UNCHANGED DetectorFields
       /\ undrained'.pending_states = Emitted'
       /\ undrained'.pending_times = EmittedTimes'
       /\ [undrained' EXCEPT !.pending_states = pending_states',
                             !.pending_times = pending_times'] = Self']_vars

\* the queue was drained in the middle of a run, and the run went on
C13_Witness ==
    /\ drained # <<>>
    /\ IsRunState(drained[Len(drained)])
    /\ pending_states # <<>>
    /\ current_detection # <<>>

-----------------------------------------------------------------------------
(* The motion test *)

\* frame_recv took stream frame i for motion-positive: it announced the frame
\* with a WaitAndSee or an Active
TreatedPositive(i) ==
    \E k \in 1..Len(Emitted) :
        IsRunState(Emitted[k]) /\ Emitted[k].current_frame_number = i

\* C14: a frame after the first is motion-positive iff average > change_minimum
\* and average < change_maximum and stddev > stddev_minimum, all strict: a frame
\* whose average equals change_minimum or change_maximum, or whose stddev equals
\* stddev_minimum, is motion-negative, and so is a frame whose diff is NaN (a
\* mask that leaves no pixel).
C14_StrictThresholds ==
    \A i \in 1..(Len(inputs) - 1) :
        LET average == StreamDiff(i).average
            variance == StreamDiff(i).std_dev_estimate
        IN /\ TreatedPositive(i) <=>
                /\ FGt(average, config.change_minimum)
                /\ FLt(average, config.change_maximum)
                /\ StdDevGt(variance, config.stddev_minimum)
           /\ (\/ average = config.change_minimum
               \/ average = config.change_maximum
               \/ /\ FGe(config.stddev_minimum, Zero)
                  /\ variance = FMul(config.stddev_minimum, config.stddev_minimum)
               \/ IsNaN(average)
               \/ IsNaN(variance))
              => ~TreatedPositive(i)

\* one stream held a frame whose average equals change_minimum, a frame whose
\* average equals change_maximum, and a motion-positive frame
C14_Witness ==
    \E i, j, k \in 1..(Len(inputs) - 1) :
        /\ StreamDiff(i).average = config.change_minimum
        /\ StreamDiff(j).average = config.change_maximum
        /\ ~TreatedPositive(i) /\ ~TreatedPositive(j)
        /\ TreatedPositive(k)

\* a frame whose standard deviation equals a positive stddev_minimum, and a
\* motion-positive frame
C14_WitnessStdDev ==
    \E i, k \in 1..(Len(inputs) - 1) :
        /\ FGt(config.stddev_minimum, Zero)
        /\ StreamDiff(i).std_dev_estimate
              = FMul(config.stddev_minimum, config.stddev_minimum)
        /\ ~TreatedPositive(i)
        /\ TreatedPositive(k)

\* a frame whose diff is NaN
C14_WitnessNaN ==
    \E i \in 1..(Len(inputs) - 1) :
        IsNaN(StreamDiff(i).average) /\ ~TreatedPositive(i)

-----------------------------------------------------------------------------
(* The deciding frame *)

\* the frame the step hands to frame_recv
NewFrame == inputs'[Len(inputs')]

\* the step hands the detector a deciding frame: a motion-negative frame that
\* finds a run open and the post-roll buffer full
Deciding ==
    /\ inputs' # inputs
    /\ last_frame # None
    /\ ~IsMotion(config, DiffTable[mask_image][Unwrap(last_frame)][NewFrame])
    /\ current_detection # <<>>
    /\ Len(followup_frames) >= config.followup_frame_count

\* the event of the run as the deciding frame finds it
DecidedEvent ==
    MotionDetectionEvent(Unwrap(detection_start_frame), frame_number - 1,
                         current_detection \o followup_frames, current_detection_score)

\* C15: the deciding frame n appends exactly two transitions: the Rejected or
\* Completed whose event ends at n - 1 and holds the run followed by the
\* post-roll buffer, then Idle{n}; it is Rejected iff the run length (without
\* that post-roll) is <= minimum_frame_count or the score is <
\* minimum_total_change.  No other frame appends a Rejected or Completed.
C15_DecidingFrame ==
    [][/\ Deciding =>
            LET rejected == \/ Len(current_detection) <= config.minimum_frame_count
                            \/ FLt(current_detection_score, config.minimum_total_change)
                terminal == IF rejected
                            THEN [tag |-> "Rejected", event |-> DecidedEvent]
                            ELSE [tag |-> "Completed",
                                  was_confirmed_already |-> detection_confirmed,
                                  event |-> DecidedEvent]
            IN Emitted' = Emitted \o <<terminal, Idle(frame_number)>>
       /\ (inputs' # inputs /\ ~Deciding) =>
            \A k \in (Len(Emitted) + 1)..Len(Emitted') : ~IsTerminal(Emitted'[k])]_vars

\* a run whose length equals a positive minimum_frame_count, with score enough,
\* was just rejected, and an earlier run was completed
C15_Witness ==
    \E i \in 1..Len(Emitted) :
        /\ Len(Emitted) >= 2
        /\ Emitted[i].tag = "Completed"
        /\ i < Len(Emitted) - 1
        /\ Emitted[Len(Emitted)].tag = "Idle"
        /\ LET t == Emitted[Len(Emitted) - 1]
           IN /\ t.tag = "Rejected"
              /\ config.minimum_frame_count > 0
              /\ Len(t.event.frames) - config.followup_frame_count
                    = config.minimum_frame_count
              /\ FGe(t.event.total_score, config.minimum_total_change)

-----------------------------------------------------------------------------
(* After a run *)

\* the pre-roll frame of a run that starts with stream frame m
PreRoll(m) == MotionDetectionFrame(inputs[m], Zero, Zero)

\* stream frame m as a run records it
RunFrame(m) ==
    MotionDetectionFrame(inputs[m + 1], StreamDiff(m).average, StreamDiff(m).std_dev_estimate)

\* C16: after a Rejected or Completed the detector is fully reset (run and
\* post-roll empty, score 0, not confirmed, no start), so the next
\* motion-positive frame m starts a fresh run: pre-roll frame m - 1, start =
\* m - 1, score = the change of frame m alone, confirmation not carried over.
C16_FullReset ==
    LET last == Len(Emitted)
    IN /\ (last >= 2 /\ Emitted[last].tag = "Idle" /\ IsTerminal(Emitted[last - 1])) =>
            /\ current_detection = <<>>
            /\ followup_frames = <<>>
            /\ current_detection_score = Zero
            /\ ~detection_confirmed
            /\ detection_start_frame = None
       /\ \A i \in 1..(last - 2) :
            IsTerminal(Emitted[i]) =>
                LET confirmed == Emitted[i + 2].tag = "ConfirmedInProgress"
                    t == IF confirmed THEN Emitted[i + 3] ELSE Emitted[i + 2]
                    m == t.current_frame_number
                IN /\ IsRunState(t)
                   /\ m > Emitted[i].event.end_stream_frame_number + 1
                   /\ t.start_frame_number = m - 1
                   /\ t.current_score = StreamDiff(m).average
                   /\ confirmed =>
                        Emitted[i + 2].event
                            = MotionDetectionEvent(m - 1, m, <<PreRoll(m)>>, Zero)
                   /\ (i + 2 = last \/ (confirmed /\ i + 3 = last)) =>
                        /\ current_detection = <<PreRoll(m), RunFrame(m)>>
                        /\ followup_frames = <<>>
                        /\ current_detection_score = StreamDiff(m).average
                        /\ detection_start_frame = Some(m - 1)
                        /\ detection_confirmed = confirmed

\* a confirmed run with a positive score completed, and the next
\* motion-positive frame has just started an unconfirmed run
C16_Witness ==
    LET last == Len(Emitted)
    IN /\ last >= 4
       /\ IsRunState(Emitted[last])
       /\ Emitted[last - 1].tag = "Idle"
       /\ Emitted[last - 2].tag = "Completed"
       /\ Emitted[last - 2].was_confirmed_already
       /\ FGt(Emitted[last - 2].event.total_score, Zero)
       /\ ~detection_confirmed

-----------------------------------------------------------------------------
(* The post-roll buffer *)

C17_WitnessEmpty ==
    /\ config.followup_frame_count > 0
    /\ \E i \in 1..Len(Emitted) : IsTerminal(Emitted[i])
    /\ current_detection = <<>>
    /\ followup_frames = <<>>

-----------------------------------------------------------------------------
(* Scores *)

\* the sum of the change values of the first k frames
RECURSIVE SumChange(_, _)
SumChange(frames, k) ==
    IF k = 0 THEN Zero ELSE FAdd(SumChange(frames, k - 1), frames[k].change)

\* C18: an event's total_score is the sum of the change values of its frames:
\* the pre-roll frame and every post-roll frame carry change 0, every
\* motion-positive frame carries its measured change, counted once.
C18_TotalScore ==
    \A i \in 1..Len(Emitted) :
        HasEvent(Emitted[i]) =>
            LET e == Emitted[i].event
            IN /\ e.total_score = SumChange(e.frames, Len(e.frames))
               /\ \A k \in 1..Len(e.frames) :
                     LET f == e.start_stream_frame_number + k - 1
                     IN e.frames[k].change
                            = IF k > 1 /\ Positive(f) THEN StreamDiff(f).average ELSE Zero

\* a Completed event with two motion-positive frames of different change around
\* a spliced post-roll frame, and a post-roll frame at its end
C18_Witness ==
    \E i \in 1..Len(Emitted) :
        /\ Emitted[i].tag = "Completed"
        /\ LET frames == Emitted[i].event.frames
           IN /\ Len(frames) >= 5
              /\ \E a, b, c \in 2..(Len(frames) - 1) :
                    /\ a < b /\ b < c
                    /\ FGt(frames[a].change, Zero)
                    /\ frames[b].change = Zero
                    /\ FGt(frames[c].change, Zero)
                    /\ frames[a].change # frames[c].change
              /\ frames[Len(frames)].change = Zero

-----------------------------------------------------------------------------
(* The minimums of a completed run *)

\* the motion-positive frames among the frames of an event (the first frame of
\* an event is the pre-roll)
MotionFrames(e) ==
    {k \in 2..Len(e.frames) : Positive(e.start_stream_frame_number + k - 1)}

\* C19: a run is Completed only if it contains at least minimum_frame_count
\* motion-positive frames; the pre-roll frame and post-roll frames spliced back
\* into the run after a gap do not count toward the minimum.
C19_MinimumMotionFrames ==
    \A i \in 1..Len(Emitted) :
        Emitted[i].tag = "Completed" =>
            Cardinality(MotionFrames(Emitted[i].event)) >= config.minimum_frame_count

\* C20: every Completed event and every ConfirmedInProgress event has
\* total_score >= minimum_total_change: a run whose summed score is below
\* minimum_total_change is never completed or confirmed, it ends Rejected.
C20_MinimumTotalChange ==
    \A i \in 1..Len(Emitted) :
        LET t == Emitted[i]
        IN /\ t.tag \in {"Completed", "ConfirmedInProgress"} =>
                FGe(t.event.total_score, config.minimum_total_change)
           /\ (IsTerminal(t) /\ FLt(t.event.total_score, config.minimum_total_change)) =>
                t.tag = "Rejected"

\* a run long enough was rejected for its score alone, and a later run was
\* completed under a positive minimum_total_change
C20_Witness ==
    \E i, j \in 1..Len(Emitted) :
        /\ i < j
        /\ FGt(config.minimum_total_change, Zero)
        /\ Emitted[i].tag = "Rejected"
        /\ Len(Emitted[i].event.frames) - config.followup_frame_count
              > config.minimum_frame_count
        /\ FLt(Emitted[i].event.total_score, config.minimum_total_change)
        /\ Emitted[j].tag = "Completed"

\* a run whose score equals minimum_total_change was confirmed and completed
C20_WitnessEqual ==
    \E i, j \in 1..Len(Emitted) :
        /\ Emitted[i].tag = "ConfirmedInProgress"
        /\ Emitted[j].tag = "Completed"
        /\ Emitted[i].event.total_score = config.minimum_total_change
        /\ Emitted[j].event.total_score = config.minimum_total_change

-----------------------------------------------------------------------------
(* The wait before the confirmation *)

\* an Active of the run starting at s was emitted before position i, for a
\* frame before n: the run met the accept thresholds before frame n
ActiveBefore(s, n, i) ==
    \E j \in 1..(i - 1) :
        /\ Emitted[j].tag = "Active"
        /\ Emitted[j].start_frame_number = s
        /\ Emitted[j].current_frame_number < n

\* C21 as claimed: a run is announced as ConfirmedInProgress once
\* maximum_frame_wait frames have elapsed after the frame a at which it first
\* met the accept thresholds (its first Active), and not earlier: by every
\* later motion-positive frame n of the run with n - a >= maximum_frame_wait
\* the ConfirmedInProgress has been emitted, and none is emitted for a frame n
\* with n - a < maximum_frame_wait.
C21_ConfirmedAfterWait ==
    \A j, i \in 1..Len(Emitted) :
        (/\ j < i
         /\ Emitted[j].tag = "Active"
         /\ ~ActiveBefore(Emitted[j].start_frame_number, Emitted[j].current_frame_number, j)
         /\ Emitted[i].tag \in {"WaitAndSee", "Active", "ConfirmedInProgress"}
         /\ (IF IsRunState(Emitted[i]) THEN Emitted[i].start_frame_number
                                      ELSE Emitted[i].event.start_stream_frame_number)
               = Emitted[j].start_frame_number)
        => LET a == Emitted[j].current_frame_number
               s == Emitted[j].start_frame_number
           IN IF IsRunState(Emitted[i])
              THEN Emitted[i].current_frame_number - a >= config.maximum_frame_wait
                       => ConfirmedBefore(s, i)
              ELSE Emitted[i].event.end_stream_frame_number - a
                       >= config.maximum_frame_wait

\* C21 amended: the wait is counted from the run's start and includes the
\* post-roll length: a ConfirmedInProgress is emitted for frame n only if
\* n - start > maximum_frame_wait + followup_frame_count + minimum_frame_count,
\* and then the run met the accept thresholds on an earlier frame (or n is the
\* run's first frame, the budget is 0 and minimum_total_change <= 0); a run
\* that met the accept thresholds before a motion-positive frame n has been
\* confirmed by frame n iff n - start exceeds that budget.
C21_ConfirmedAfterBudget ==
    \A i \in 1..Len(Emitted) :
        LET t == Emitted[i]
        IN /\ t.tag = "ConfirmedInProgress" =>
                LET s == t.event.start_stream_frame_number
                    n == t.event.end_stream_frame_number
                IN /\ n - s > ConfirmBudget
                   /\ \/ ActiveBefore(s, n, i)
                      \/ /\ n = s + 1
                         /\ ConfirmBudget = 0
                         /\ FGe(Zero, config.minimum_total_change)
           /\ (IsRunState(t)
                 /\ ActiveBefore(t.start_frame_number, t.current_frame_number, i)) =>
                (ConfirmedBefore(t.start_frame_number, i)
                    <=> t.current_frame_number - t.start_frame_number > ConfirmBudget)

\* a run with a post-roll configured met the accept thresholds, went on
\* unconfirmed for a frame, and was confirmed later
C21_Witness ==
    \E j, k, i \in 1..Len(Emitted) :
        /\ j < k /\ k < i
        /\ config.followup_frame_count > 0
        /\ Emitted[j].tag = "Active"
        /\ Emitted[k].tag = "Active"
        /\ Emitted[k].start_frame_number = Emitted[j].start_frame_number
        /\ ~ConfirmedBefore(Emitted[k].start_frame_number, k)
        /\ Emitted[i].tag = "ConfirmedInProgress"
        /\ Emitted[i].event.start_stream_frame_number = Emitted[j].start_frame_number

-----------------------------------------------------------------------------
(* After a Followup *)

\* the number of consecutive Followup transitions ending at position i
RECURSIVE ConsecutiveFollowups(_)
ConsecutiveFollowups(i) ==
    IF i = 0 \/ Emitted[i].tag # "Followup" THEN 0 ELSE 1 + ConsecutiveFollowups(i - 1)

\* C22 as claimed: once a Followup was emitted, the very next frame ends the
\* run: the next frame_recv emits Rejected or Completed.
C22_FollowupThenDecision ==
    \A i \in 1..(Len(Emitted) - 1) :
        Emitted[i].tag = "Followup" => IsTerminal(Emitted[i + 1])

\* C22 amended: the Followup of frame n is the k-th in a row, k <=
\* followup_frame_count.  Frame n + 1 always emits a transition: if it is
\* motion-positive the run resumes (ConfirmedInProgress or WaitAndSee/Active
\* for frame n + 1); if it is motion-negative and k < followup_frame_count,
\* another Followup; only if it is motion-negative and k =
\* followup_frame_count, the Rejected or Completed, with end = n.
C22_FollowupThenNext ==
    \A i \in 1..Len(Emitted) :
        Emitted[i].tag = "Followup" =>
            LET n == Emitted[i].current_frame_number
                k == ConsecutiveFollowups(i)
            IN /\ k <= config.followup_frame_count
               /\ i < Len(Emitted) <=> n + 1 < Len(inputs)
               /\ i < Len(Emitted) =>
                    LET t == Emitted[i + 1]
                    IN IF Positive(n + 1)
                       THEN \/ IsRunState(t) /\ t.current_frame_number = n + 1
                            \/ /\ t.tag = "ConfirmedInProgress"
                               /\ t.event.end_stream_frame_number = n + 1
                       ELSE IF k < config.followup_frame_count
                       THEN /\ t.tag = "Followup"
                            /\ t.current_frame_number = n + 1
                       ELSE /\ IsTerminal(t)
                            /\ t.event.end_stream_frame_number = n

\* after one Followup the run resumed, and after a later one it was decided
C22_Witness ==
    \E i, j \in 1..(Len(Emitted) - 1) :
        /\ i < j
        /\ Emitted[i].tag = "Followup"
        /\ IsRunState(Emitted[i + 1])
        /\ Emitted[j].tag = "Followup"
        /\ IsTerminal(Emitted[j + 1])

\* a Followup was followed by a second Followup, and then by the decision
C22_WitnessSecond ==
    \E j \in 1..(Len(Emitted) - 2) :
        /\ Emitted[j].tag = "Followup"
        /\ Emitted[j + 1].tag = "Followup"
        /\ IsTerminal(Emitted[j + 2])

-----------------------------------------------------------------------------
(* Confirmed runs, the accept status and the post-roll *)

\* the start of the run a transition belongs to (Idle belongs to none)
RunStart(t) ==
    IF HasEvent(t) THEN t.event.start_stream_frame_number ELSE t.start_frame_number

\* the run's thresholds fail: what makes the deciding frame reject
BelowThresholds(length, score) ==
    \/ length <= config.minimum_frame_count
    \/ FLt(score, config.minimum_total_change)

\* C37: a run for which ConfirmedInProgress was emitted is never Rejected: no
\* Rejected has a ConfirmedInProgress of its run before it, the terminal
\* transition that follows a ConfirmedInProgress of the same run is
\* Completed{was_confirmed_already = TRUE}, and while a confirmed run is open
\* its length and score stay above the reject thresholds.
C37_ConfirmedNeverRejected ==
    /\ \A i \in 1..Len(Emitted) :
          Emitted[i].tag = "Rejected" =>
              \A j \in 1..(i - 1) :
                  ~(SameRun(j, i) /\ Emitted[j].tag = "ConfirmedInProgress")
    /\ \A j \in 1..Len(Emitted) :
          Emitted[j].tag = "ConfirmedInProgress" =>
              \A i \in (j + 1)..Len(Emitted) :
                  (IsTerminal(Emitted[i]) /\ SameRun(j, i)) =>
                      /\ Emitted[i].tag = "Completed"
                      /\ Emitted[i].was_confirmed_already
                      /\ RunStart(Emitted[i]) = RunStart(Emitted[j])
    /\ detection_confirmed =>
          /\ detection_start_frame # None
          /\ ~BelowThresholds(Len(current_detection), current_detection_score)

\* an earlier run of the stream was rejected; a later run was confirmed in
\* progress and completed as confirmed, under a minimum_total_change above zero
C37_Witness ==
    \E r, j, i \in 1..Len(Emitted) :
        /\ r < j /\ j < i
        /\ Emitted[r].tag = "Rejected"
        /\ Emitted[j].tag = "ConfirmedInProgress"
        /\ Emitted[i].tag = "Completed"
        /\ Emitted[i].was_confirmed_already
        /\ SameRun(j, i)
        /\ config.minimum_total_change # Zero

\* C38: within one run the accept status is monotone: after an Active no
\* WaitAndSee of the same run follows, and every ConfirmedInProgress is
\* directly followed, by the same frame_recv call (it is never the last
\* transition emitted), by the Active of the same run and frame.
C38_AcceptMonotone ==
    /\ \A i \in 1..Len(Emitted) :
          Emitted[i].tag = "Active" =>
              \A j \in (i + 1)..Len(Emitted) :
                  Emitted[j].tag = "WaitAndSee" =>
                      Emitted[j].start_frame_number # Emitted[i].start_frame_number
    /\ \A i \in 1..Len(Emitted) :
          Emitted[i].tag = "ConfirmedInProgress" =>
              /\ i < Len(Emitted)
              /\ Emitted[i + 1].tag = "Active"
              /\ Emitted[i + 1].start_frame_number
                    = Emitted[i].event.start_stream_frame_number
              /\ Emitted[i + 1].current_frame_number
                    = Emitted[i].event.end_stream_frame_number

\* a run that had been announced by a WaitAndSee, by an Active and by a
\* Followup was then confirmed in progress
C38_Witness ==
    \E c \in 1..Len(Emitted) :
        /\ Emitted[c].tag = "ConfirmedInProgress"
        /\ \A tag \in {"WaitAndSee", "Active", "Followup"} :
              \E i \in 1..(c - 1) :
                  /\ Emitted[i].tag = tag
                  /\ Emitted[i].start_frame_number
                        = Emitted[c].event.start_stream_frame_number

\* stream frame n is one of the frames of event e
InEvent(n, e) ==
    /\ e.start_stream_frame_number <= n
    /\ n < e.start_stream_frame_number + Len(e.frames)

\* the terminal transition at position i was emitted by the
\* (followup_frame_count + 1)-th consecutive motion-negative frame: the frame
\* before them is motion-positive, each of the first followup_frame_count
\* emitted a Followup and is at the end of the event with change 0, and the
\* event has end - start + 1 frames
DecidedAfterPostRoll(i) ==
    LET e == Emitted[i].event
        fup == config.followup_frame_count
        n == e.end_stream_frame_number + 1
        len == Len(e.frames)
    IN /\ n - fup - 1 >= 1
       /\ Positive(n - fup - 1)
       /\ \A k \in (n - fup)..n : ~Positive(k)
       /\ i > fup
       /\ \A k \in 1..fup :
             /\ Emitted[i - k].tag = "Followup"
             /\ Emitted[i - k].current_frame_number = n - k
             /\ e.frames[len - k + 1] = MotionDetectionFrame(inputs[n - k + 1], Zero, Zero)
       /\ len = e.end_stream_frame_number - e.start_stream_frame_number + 1
       /\ len >= fup + 2

\* the transition at position i is the last one of stream frame m, the run is
\* open and its post-roll buffer is full
PostRollFull(i, m) ==
    /\ \/ IsRunState(Emitted[i]) /\ config.followup_frame_count = 0
       \/ /\ Emitted[i].tag = "Followup"
          /\ ConsecutiveFollowups(i) = config.followup_frame_count
    /\ Emitted[i].current_frame_number = m

\* once the post-roll buffer is full the next motion-negative frame decides
\* (with followup_frame_count = 0: the first motion-negative frame of the run)
NextNegativeDecides ==
    \A i \in 1..Len(Emitted), m \in 1..(Len(inputs) - 2) :
        (PostRollFull(i, m) /\ ~Positive(m + 1)) =>
            /\ i < Len(Emitted)
            /\ IsTerminal(Emitted[i + 1])
            /\ Emitted[i + 1].event.end_stream_frame_number = m

\* C39 as stated: a run ends exactly on the (followup_frame_count + 1)-th
\* consecutive motion-negative frame, which is placed in no event; every
\* Rejected/Completed event ends with exactly followup_frame_count zero-score
\* frames and has end - start + 1 frames.
C39_PostRollStated ==
    /\ NextNegativeDecides
    /\ \A i \in 1..Len(Emitted) :
          IsTerminal(Emitted[i]) =>
              LET e == Emitted[i].event
              IN /\ DecidedAfterPostRoll(i)
                 /\ e.frames[Len(e.frames) - config.followup_frame_count].change # Zero
                 /\ \A j \in 1..Len(Emitted) :
                       HasEvent(Emitted[j]) =>
                           ~InEvent(e.end_stream_frame_number + 1, Emitted[j].event)

\* the part of C39 about the deciding frame alone
C39_DecidingFrameInNoEvent ==
    \A i, j \in 1..Len(Emitted) :
        (IsTerminal(Emitted[i]) /\ HasEvent(Emitted[j])) =>
            ~InEvent(Emitted[i].event.end_stream_frame_number + 1, Emitted[j].event)

\* the part of C39 about the number of zero-score frames alone
C39_ExactlyPostRollZeros ==
    \A i \in 1..Len(Emitted) :
        IsTerminal(Emitted[i]) =>
            LET e == Emitted[i].event
            IN Len(e.frames) > config.followup_frame_count =>
                  e.frames[Len(e.frames) - config.followup_frame_count].change # Zero

\* C39: a run ends exactly on the (followup_frame_count + 1)-th consecutive
\* motion-negative frame.  That frame is not in the event it ends; it is in a
\* later event only as the pre-roll frame of the next run, when the frame after
\* it is motion-positive.  Every Rejected/Completed event has end - start + 1
\* frames and ends with the followup_frame_count buffered frames, stored with
\* change 0, after a motion-positive frame whose change is above 0 unless
\* change_minimum is negative.
C39_PostRoll ==
    /\ NextNegativeDecides
    /\ \A i \in 1..Len(Emitted) :
          IsTerminal(Emitted[i]) =>
              LET e == Emitted[i].event
                  n == e.end_stream_frame_number + 1
                  last == e.frames[Len(e.frames) - config.followup_frame_count]
              IN /\ DecidedAfterPostRoll(i)
                 /\ last.change = StreamDiff(n - config.followup_frame_count - 1).average
                 /\ FGe(config.change_minimum, Zero) => FGt(last.change, Zero)
                 /\ ~InEvent(n, e)
                 /\ \A j \in 1..Len(Emitted) :
                       (HasEvent(Emitted[j]) /\ InEvent(n, Emitted[j].event)) =>
                           /\ j > i
                           /\ Emitted[j].event.start_stream_frame_number = n
                           /\ Emitted[j].event.frames[1]
                                 = MotionDetectionFrame(inputs[n + 1], Zero, Zero)
                           /\ Positive(n + 1)

\* a run was decided after a post-roll of one frame or more, and its deciding
\* frame is the pre-roll frame of the next run's event
C39_Witness ==
    \E i, j \in 1..Len(Emitted) :
        /\ i < j
        /\ IsTerminal(Emitted[i])
        /\ HasEvent(Emitted[j])
        /\ config.followup_frame_count >= 1
        /\ Emitted[j].event.start_stream_frame_number
              = Emitted[i].event.end_stream_frame_number + 1

\* under a negative change_minimum an event ends with more zero-score frames
\* than the post-roll: its last motion-positive frame has change 0
C39_WitnessZeroChange ==
    \E i \in 1..Len(Emitted) :
        /\ IsTerminal(Emitted[i])
        /\ config.followup_frame_count >= 1
        /\ FLt(config.change_minimum, Zero)
        /\ Emitted[i].event.frames[Len(Emitted[i].event.frames)
                                     - config.followup_frame_count].change = Zero

-----------------------------------------------------------------------------
(* The camera worker *)

\* seq is the start of full
IsPrefix(seq, full) ==
    /\ Len(seq) <= Len(full)
    /\ \A i \in 1..Len(seq) : seq[i] = full[i]

\* C23: the worker hands the detector the frames in exactly the order the
\* decoder produced them, and the queue is empty whenever frame_recv is called:
\* every transition of frame n has been drained before frame n + 1 is taken
\* from the channel.
C23_DrainedBeforeNextFrame ==
    /\ IsPrefix(inputs, decoded)
    /\ worker_pc = "recv" =>
          /\ pending_states = <<>>
          /\ pending_times = <<>>
          /\ drained = undrained.pending_states
    /\ worker_pc = "dispatch" =>
          /\ drained \o pending_states = undrained.pending_states
          /\ stats.frame_number = Len(inputs) - 1

\* the worker is about to receive a frame after it has dispatched both runs of
\* the stream, and frames are waiting in the channel
C23_Witness ==
    /\ worker_pc = "recv"
    /\ Len(channel) >= 2
    /\ Len(inputs) >= 8
    /\ \E i \in 1..Len(drained) : drained[i].tag = "Completed"
    /\ \E i \in 1..Len(drained) : drained[i].tag = "Rejected"

\* the positions of drained holding a transition with the tag
DrainedWith(tag) == {i \in 1..Len(drained) : drained[i].tag = tag}

\* the jobs spawned for the drained transition at position i: those holding its
\* timestamp and its event
JobsOf(i) ==
    {j \in 1..Len(jobs) :
        /\ HasEvent(drained[i])
        /\ jobs[j].time = drained_times[i]
        /\ jobs[j].event = drained[i].event}

\* C24: per drained transition the worker spawns: for ConfirmedInProgress
\* exactly one alert job of kind Confirmed and no clip job; for Completed
\* exactly one alert job (CompletedAfterConfirm iff was_confirmed_already, else
\* Completed) and exactly one clip job, both holding the transition's event;
\* for Rejected, Idle, WaitAndSee, Active and Followup no job.
C24_JobsPerTransition ==
    /\ Len(jobs) = Cardinality(DrainedWith("ConfirmedInProgress"))
                       + 2 * Cardinality(DrainedWith("Completed"))
    /\ \A i \in 1..Len(drained) :
          LET t == drained[i]
              alerts == {j \in JobsOf(i) : jobs[j].kind = "alert"}
              clips == {j \in JobsOf(i) : jobs[j].kind = "clip"}
          IN /\ t.tag = "ConfirmedInProgress" =>
                  /\ Cardinality(alerts) = 1
                  /\ clips = {}
                  /\ \A j \in alerts : jobs[j].alert_state = "Confirmed"
             /\ t.tag = "Completed" =>
                  /\ Cardinality(alerts) = 1
                  /\ Cardinality(clips) = 1
                  /\ \A j \in alerts :
                        jobs[j].alert_state
                            = IF t.was_confirmed_already THEN "CompletedAfterConfirm"
                                                         ELSE "Completed"
             /\ t.tag = "Rejected" => JobsOf(i) = {}

\* a Rejected, a ConfirmedInProgress and a Completed have been dispatched, along
\* with transitions of every other kind
C24_Witness ==
    /\ worker_pc = "recv"
    /\ \A tag \in {"Idle", "WaitAndSee", "Active", "Followup", "Rejected",
                   "ConfirmedInProgress", "Completed"} : DrainedWith(tag) # {}
    /\ Len(jobs) = 3

\* a Completed that was not confirmed has been dispatched
C24_WitnessUnconfirmed ==
    \E j \in 1..Len(jobs) : jobs[j].alert_state = "Completed"

\* the frame the decoder reader holds and has not sent yet
InHand == IF image_buf = None THEN <<>> ELSE <<Unwrap(image_buf)>>

\* C25: the channel never holds more than 10 frames; when it is full the
\* decoder reader waits with its frame instead of dropping or overwriting one,
\* so every frame read from the decoder reaches the detector exactly once and
\* in order: the frames read are those handed to the detector, then those in
\* the channel, then the one in the reader's hand.
C25_BoundedChannel ==
    /\ Len(channel) <= ChannelCapacity
    /\ decoded = inputs \o channel \o InHand
    /\ (decoder_pc = "send" /\ Len(channel) = ChannelCapacity) => ~ENABLED SendImage
    /\ decoder_pc = "send" <=> image_buf # None

\* the channel is full and the reader waits with the eleventh frame
C25_Witness ==
    /\ Len(channel) = ChannelCapacity
    /\ decoder_pc = "send"
    /\ Len(decoded) = ChannelCapacity + 1 + Len(inputs)

\* C27: the frame loop never waits for a job: with no assumption that any job
\* ever starts, proceeds or ends, the worker takes the next frame whenever the
\* channel holds one, and dispatches the transitions of every frame it has
\* taken.
C27_NeverWaitsForJobs ==
    /\ (worker_pc = "recv" /\ channel # <<>>) ~> (worker_pc = "dispatch")
    /\ (worker_pc = "dispatch") ~> (worker_pc = "recv")

\* no job of the first event has even started, and the worker has processed
\* later frames and dispatched a later event
C27_Witness ==
    /\ Len(jobs) >= 3
    /\ \A j \in 1..Len(jobs) : jobs[j].state = "spawned"
    /\ worker_pc = "recv"
    /\ Len(inputs) >= 9

\* C26: whenever the decoder run has ended (probe or spawn failure, short
\* read: decoder_pc = "sleep"), the worker starts a decoder run again, and it
\* never stops doing so.
C26_RespawnsForever ==
    (decoder_pc = "sleep") ~> (decoder_pc = "probe")

\* a new run is started after a run that had decoded frames ended with a short
\* read
C26_Witness ==
    /\ decoder_pc = "probe"
    /\ Len(decoded) >= 2
    /\ image_buf = None

\* the clip jobs among the jobs
ClipJobs == {j \in 1..Len(jobs) : jobs[j].kind = "clip"}

\* the alert job of the event of clip job j, if there is one
AlertJobsOf(j) ==
    {a \in 1..Len(jobs) :
        /\ jobs[a].kind = "alert"
        /\ jobs[a].alert_state \in {"Completed", "CompletedAfterConfirm"}
        /\ jobs[a].time = jobs[j].time
        /\ jobs[a].event = jobs[j].event}

\* C28 as stated: when the clip write of a Completed event has failed, the
\* alert of that event has been sent.
C28_AlertSentBeforeClipFails ==
    \A j \in ClipJobs :
        jobs[j].state = "failed" => \E a \in AlertJobsOf(j) : jobs[a].state = "sent"

\* C28: the alert job of a Completed event is spawned before its clip job: it
\* is the one job spawned directly before it.  (The two jobs then run
\* independently: the alert may be sent before or after the clip write fails,
\* see C28_Witness and C28_WitnessSent.)
C28_AlertSpawnedBeforeClip ==
    \A j \in ClipJobs :
        /\ j > 1
        /\ AlertJobsOf(j) = {j - 1}

\* the clip write has failed while the alert of the same event has not been
\* sent
C28_Witness ==
    \E j \in ClipJobs :
        /\ jobs[j].state = "failed"
        /\ \A a \in AlertJobsOf(j) : jobs[a].state = "spawned"

\* the clip write has failed after the alert of the same event was sent
C28_WitnessSent ==
    \E j \in ClipJobs :
        /\ jobs[j].state = "failed"
        /\ \E a \in AlertJobsOf(j) : jobs[a].state = "sent"

\* the timestamps an event can carry
EventTimes == 0..(MaxDecoded + 2)

\* C29: every clip written at {event_dir}/{camera}_{timestamp}.mp4 eventually
\* has its {event_dir}/{camera}_{timestamp}.json next to it.
C29_ClipHasMetadata ==
    \A time \in EventTimes :
        (EventPath(time, "mp4") \in event_dir) ~> (EventPath(time, "json") \in event_dir)

\* a clip has been written (the case of C29)
C29_ClipWritten ==
    \E j \in ClipJobs :
        /\ jobs[j].state = "written"
        /\ EventPath(jobs[j].time, "mp4") \in event_dir
        /\ EventPath(jobs[j].time, "json") \notin event_dir

\* what holds instead: no step of the worker or of a job puts a .json into the
\* event directory
C29_NoMetadataWritten ==
    \A time \in EventTimes : EventPath(time, "json") \notin event_dir

\* C30: once the encoder of a clip job runs, it has been handed every frame of
\* event.frames, in order and each once; with no frame the encoder is not
\* started and the job fails.
C30_EveryFrameFed ==
    \A j \in ClipJobs :
        /\ jobs[j].state \in {"encoding", "written"} =>
              /\ jobs[j].event.frames # <<>>
              /\ jobs[j].fed = jobs[j].event.frames
        /\ jobs[j].event.frames = <<>> => jobs[j].state \in {"spawned", "failed"}

-----------------------------------------------------------------------------
(* Alerts and previews *)

\* alert_event has built its alert and spawned the push task
AlertBuilt == alert_pc \in {"spawned", "pushed"}

\* the preview format of the call
CallFormat == PreviewFormatOf(alert_call.pushover)

\* the frames of the call's event
CallFrames == alert_call.event.frames

\* frame i has the maximum change of the event
HasMaximumChange(i) ==
    \A k \in 1..Len(CallFrames) : FGe(CallFrames[i].change, CallFrames[k].change)

\* the jpeg preview is the jpeg of frame i
JpegOf(i) ==
    /\ Len(alert.attachment) = 1
    /\ alert.attachment[1].what = "jpeg"
    /\ alert.attachment[1].of = i
    /\ alert.attachment_type = Some("image/jpeg")

\* C31 as stated: the jpeg preview is the frame of maximum change, the earliest
\* one when several frames share the maximum.
C31_JpegEarliestMaximum ==
    (AlertBuilt /\ CallFormat = "Jpeg") =>
        \E i \in 1..Len(CallFrames) :
            /\ JpegOf(i)
            /\ HasMaximumChange(i)
            /\ \A k \in 1..(i - 1) : ~HasMaximumChange(k)

\* C31: the jpeg preview is the frame of maximum change, the latest one (the
\* highest index) when several frames share the maximum.
C31_JpegLatestMaximum ==
    (AlertBuilt /\ CallFormat = "Jpeg") =>
        \E i \in 1..Len(CallFrames) :
            /\ JpegOf(i)
            /\ HasMaximumChange(i)
            /\ \A k \in (i + 1)..Len(CallFrames) : ~HasMaximumChange(k)

\* a jpeg preview was built for an event whose first two frames share the
\* maximum change and whose third frame is below it
C31_Witness ==
    /\ AlertBuilt
    /\ CallFormat = "Jpeg"
    /\ Len(CallFrames) = 3
    /\ HasMaximumChange(1)
    /\ HasMaximumChange(2)
    /\ ~HasMaximumChange(3)
    /\ JpegOf(2)

\* the attachment is gif data: the bytes of frames 1, 2, ... in order, each
\* whole
GifFrames(attachment) ==
    \A i \in 1..Len(attachment) :
        /\ attachment[i].what = "gif"
        /\ attachment[i].of = i
        /\ attachment[i].end = i * alert_call.lens.gif

\* C32: with preview format gif or webp the attachment handed to the alert
\* client is never longer than MAX_ALERT_ATTACHMENT_SIZE; a gif is cut after
\* the last frame that still fit (whole frames, and the next frame would not
\* have fit), and a result sent as webp is within the cap.
C32_AttachmentWithinCap ==
    (AlertBuilt /\ CallFormat \in {"Gif", "Webp"}) =>
        /\ VecLen(alert.attachment) <= MAX_ALERT_ATTACHMENT_SIZE
        /\ \A i \in 1..Len(requests) :
              requests[i].attachment # None =>
                  VecLen(Unwrap(requests[i].attachment).bytes) <= MAX_ALERT_ATTACHMENT_SIZE
        /\ CallFormat = "Gif" =>
              /\ GifFrames(alert.attachment)
              /\ Len(alert.attachment) <= Len(CallFrames)
              /\ Len(alert.attachment) < Len(CallFrames) =>
                    VecLen(alert.attachment) + alert_call.lens.gif > MAX_ALERT_ATTACHMENT_SIZE
        /\ alert.attachment_type = Some("image/webp") =>
              /\ Len(alert.attachment) = 1
              /\ alert.attachment[1].what = "webp"
              /\ alert_call.lens.webp <= MAX_ALERT_ATTACHMENT_SIZE

\* a gif that was cut has been pushed: it holds some of the event's frames, not
\* all, and fills the cap to the byte
C32_Witness ==
    /\ alert_pc = "pushed"
    /\ CallFormat = "Gif"
    /\ Len(alert.attachment) = 2
    /\ Len(CallFrames) = 3
    /\ VecLen(alert.attachment) = MAX_ALERT_ATTACHMENT_SIZE
    /\ Len(requests) = 1

\* a webp of exactly the cap has been pushed as webp
C32_WitnessWebp ==
    /\ alert_pc = "pushed"
    /\ alert.attachment_type = Some("image/webp")
    /\ VecLen(alert.attachment) = MAX_ALERT_ATTACHMENT_SIZE
    /\ Len(requests) = 1

\* attach_webp has run its loop in this call
WebpLoopRan ==
    /\ alert_pc # "call"
    /\ CallFormat = "Webp"
    /\ alert # None

\* round(k * N / MAX_WEBP_FRAMES), halves rounded up
ExactIndex(k, N) == (2 * k * N + MAX_WEBP_FRAMES) \div (2 * MAX_WEBP_FRAMES)

\* the indices are those of C33: the k-th (k from 0, at position k + 1) is
\* ExactIndex(k, N), or the previous one + 1 if that is not beyond the previous
IndicesAsStated(added, N) ==
    \A p \in 1..Len(added) :
        added[p] = IF p > 1 /\ ExactIndex(p - 1, N) <= added[p - 1]
                   THEN added[p - 1] + 1
                   ELSE ExactIndex(p - 1, N)

\* the indices start at 0, increase strictly and stay below N, and there are
\* min(N, MAX_WEBP_FRAMES) of them
IndicesCount(added, N) ==
    /\ Len(added) = IF N < MAX_WEBP_FRAMES THEN N ELSE MAX_WEBP_FRAMES
    /\ added # <<>> => added[1] = 0
    /\ \A p \in 2..Len(added) : added[p - 1] < added[p]
    /\ \A p \in 1..Len(added) : added[p] < N

\* C33 as stated: the webp encoder is handed min(N, MAX_WEBP_FRAMES) frames,
\* the k-th of index round(k * N / MAX_WEBP_FRAMES) or the previous index + 1,
\* strictly increasing from 0.
C33_WebpIndices ==
    WebpLoopRan =>
        /\ IndicesCount(encoded.webp, Len(CallFrames))
        /\ IndicesAsStated(encoded.webp, Len(CallFrames))

\* the same in a build without overflow checks only
C33_WebpIndicesWrapping ==
    (WebpLoopRan /\ ~alert_call.overflow_checks) =>
        IndicesAsStated(encoded.webp, Len(CallFrames))

\* what holds in a build without overflow checks: the count, the start at 0
\* and the strict increase
C33_WebpCountWrapping ==
    (WebpLoopRan /\ ~alert_call.overflow_checks) =>
        IndicesCount(encoded.webp, Len(CallFrames))

\* ... and with overflow checks no frame is handed to the encoder
C33_WebpPanics ==
    (WebpLoopRan /\ alert_call.overflow_checks) =>
        /\ encoded.webp = <<>>
        /\ alert_pc = "panicked"

\* the gif part of C34: a gif preview of a non-empty event is never empty
C34_GifNeverEmpty ==
    (AlertBuilt /\ alert.attachment_type = Some("image/gif") /\ CallFrames # <<>>) =>
        alert.attachment # <<>>

\* the webp part of C34: the loop hands frame 0 to the encoder in its first
\* iteration and does not fail there
C34_WebpFirstFrame ==
    (WebpLoopRan /\ CallFrames # <<>>) =>
        /\ encoded.webp # <<>>
        /\ encoded.webp[1] = 0

\* C34: for a non-empty event the gif encoder and the webp encoder each put at
\* least one frame in their output.
C34_EncodersEmitAFrame ==
    /\ C34_GifNeverEmpty
    /\ C34_WebpFirstFrame

\* alert_event fell back from webp to gif in this call
FellBack ==
    /\ AlertBuilt
    /\ CallFormat = "Webp"
    /\ alert_call.lens.webp > MAX_ALERT_ATTACHMENT_SIZE

\* C35: after the fallback the alert is the one attach_gif builds for the
\* event on its own: same bytes, type image/gif, nothing of the webp in it.
C35_FallbackIsGifAlone ==
    FellBack =>
        /\ alert = attach_gif(AlertHead(alert_call), alert_call.event, alert_call.lens).alert
        /\ \A i \in 1..Len(alert.attachment) : alert.attachment[i].what # "webp"

\* what the fallback does: the alert is typed image/gif and has no attachment,
\* although the gif of the event alone would not be empty
C35_FallbackEmpty ==
    FellBack =>
        /\ alert.attachment_type = Some("image/gif")
        /\ alert.attachment = <<>>

\* a fallback for an event whose gif alone holds all its frames
C35_FallbackCase ==
    /\ FellBack
    /\ alert_pc = "pushed"
    /\ alert_call.lens.gif = MAX_WEBP_BYTES_PER_FRAME
    /\ Len(attach_gif(AlertHead(alert_call), alert_call.event, alert_call.lens).alert.attachment)
          = Len(CallFrames)

\* the effective priority of the call: the camera's alert_priority if set,
\* otherwise the global pushover priority
C36_Priority ==
    IF alert_call.camera_alert_priority # None
    THEN Unwrap(alert_call.camera_alert_priority)
    ELSE IF alert_call.pushover # None
    THEN Unwrap(alert_call.pushover).priority
    ELSE "unset"

\* C36: when the effective priority is ignore, alert_event builds no preview
\* and no request is made, whatever the alert's kind.
C36_IgnoreSuppresses ==
    C36_Priority = "Ignore" =>
        /\ alert_pc \in {"call", "returned"}
        /\ alert = None
        /\ encoded = NoneEncoded
        /\ requests = <<>>

\* the call returned at the priority test: an ended ongoing motion, ignored by
\* the global priority
C36_Witness ==
    /\ alert_pc = "returned"
    /\ alert_call.state = "CompletedAfterConfirm"
    /\ alert_call.camera_alert_priority = None
    /\ C36_Priority = "Ignore"
    /\ CallFormat = "Webp"

\* the camera's ignore overrides a global priority that is not ignore
C36_WitnessCamera ==
    /\ alert_pc = "returned"
    /\ alert_call.camera_alert_priority = Some("Ignore")
    /\ alert_call.pushover # None
    /\ Unwrap(alert_call.pushover).priority = "Normal"

-----------------------------------------------------------------------------
(* The detector across decoder runs *)

\* the detector has counted every frame it was given, holds the last of them,
\* and has emitted the bootstrap Idle once, first
OneDetector ==
    /\ frame_number = Len(inputs)
    /\ inputs # <<>> => last_frame = Some(inputs[Len(inputs)])
    /\ Emitted # <<>> => Emitted[1] = Idle(0)
    /\ \A i \in 2..Len(Emitted) : Emitted[i] # Idle(0)

\* a step that starts the next decoder run leaves the detector (its counter,
\* its previous frame, its run, its queue) and the channel as they are
RespawnKeepsDetector ==
    (decoder_pc = "sleep" /\ decoder_pc' = "probe") =>
        UNCHANGED <<last_frame, frame_number, current_detection, followup_frames,
                    detection_start_frame, detection_confirmed, current_detection_score,
                    pending_states, inputs, channel>>

\* every frame after the first is diffed against the frame received before it
\* and numbered one above it
DiffedAgainstPrevious ==
    (inputs # <<>> /\ inputs' # inputs) =>
        /\ inputs' = Append(inputs, Head(channel))
        /\ frame_number' = frame_number + 1
        /\ stats'.frame_number = frame_number
        /\ stats'.change
              = DiffTable[mask_image][inputs[Len(inputs)]][Head(channel)].average

\* C40: the detector is not reset when the decoder is respawned: the frame
\* counter keeps counting, no second bootstrap Idle is emitted, a step that
\* respawns the decoder leaves the detector, its open run and the channel
\* unchanged, and every frame, the first after a respawn included, is diffed
\* against the frame received before it.
C40_DetectorSurvivesRespawn ==
    /\ []OneDetector
    /\ [][RespawnKeepsDetector]_vars
    /\ [][DiffedAgainstPrevious]_vars

\* the decoder has been respawned while a run is open: every frame decoded so
\* far was given to the detector, and the run is neither decided nor reset
C40_Witness ==
    /\ decoder_pc = "probe"
    /\ Len(decoded) >= 2
    /\ inputs = decoded
    /\ detection_start_frame # None
    /\ current_detection # <<>>
    /\ worker_pc = "recv"

====
